---- MODULE Spec2Model ----
(***************************************************************************)
(* A model of the computational_geometry library: planar polygons kept as  *)
(* a cyclic neighbor map over vertices, the geometric predicates, the      *)
(* visibility (diagonal) test, ear-clipping triangulation and the six      *)
(* convex hull computers.                                                  *)
(*                                                                         *)
(* A point is a pair <<x, y>> of integers.  A vertex is identified by its  *)
(* id i \in 1..Len(pts); its coordinates are pts[i].  The coordinates of   *)
(* the input are small integers, on which the f64 arithmetic of the        *)
(* library is exact; a point that a rotation has moved off the integers is *)
(* the triple <<x, y, "f64">> of two f64 values, on which it rounds.       *)
(***************************************************************************)
EXTENDS Integers, Sequences, FiniteSets, TLC

VARIABLES
    pts,            \* the ordered vertex list handed to Polygon::new
    pc,             \* position of the driver: "input", "built", "panic", ...
    polygon,        \* the Polygon value: [anchor, neighbors], or NoPolygon
    out,            \* the value returned by the last query
    t_neighbors,    \* triangulation(): the working copy `neighbors`
    t_anchor,       \* triangulation(): the local `anchor`
    v2,             \* triangulation(): the local `v2` of the inner loop
    triangulation,  \* triangulation(): the chords pushed so far
    tpc,            \* triangulation(): "idle", "while", "loop", "returned"
    clipped,        \* history: ears clipped in the current pass of the inner loop
    hulls,          \* convex hull returned by each computer that has run
    split_stack,    \* DivideConquer::convex_hull: the local `split_stack`
    merge_stack,    \* DivideConquer::convex_hull: the local `merge_stack`
    dpc,            \* DivideConquer::convex_hull: "idle", "split", "merge", ...
    merge_call,     \* history: the arguments of the last call of merge
    ranges          \* history: the range of the sorted list behind each piece

\* The locals of DivideConquer::convex_hull.
dcvars == <<split_stack, merge_stack, dpc, merge_call, ranges>>

vars == <<pts, pc, polygon, out, t_neighbors, t_anchor, v2, triangulation,
          tpc, clipped, hulls, split_stack, merge_stack, dpc, merge_call,
          ranges>>

----------------------------------------------------------------------------
(* Bounds of the model.                                                    *)

\* Candidate coordinates are the first NumPoints points of the lattice that
\* is enumerated row by row, three columns wide.
NumPoints == 9

\* The longest vertex list drawn from the lattice.
MaxN == 5

PointOf(k) == <<k % 3, k \div 3>>

Grid == {PointOf(k) : k \in 0..(NumPoints - 1)}

----------------------------------------------------------------------------
(* Small helpers on sequences and sets.                                    *)

Range(s) == {s[i] : i \in DOMAIN s}

Last(s) == s[Len(s)]

Reverse(s) == [i \in 1..Len(s) |-> s[Len(s) + 1 - i]]

Rotate(s, k) == [i \in 1..Len(s) |-> s[((i - 1 + k) % Len(s)) + 1]]

Ids(s) == [i \in 1..Len(s) |-> i]

X(p) == p[1]

Y(p) == p[2]

----------------------------------------------------------------------------
(* f64.  The coordinates of a point that has been rotated are f64 values   *)
(* that are no integers, and the arithmetic of the library rounds on them. *)
(* An f64 value is kept exactly, as the record [s, m, e] of the number     *)
(* s * m * 2^e: s is its sign (-1, 0 or 1), m is an odd natural number     *)
(* written as a list of limbs, least significant first, and zero is        *)
(* [s |-> 0, m |-> <<>>, e |-> 0].  The values met here are far from the   *)
(* subnormal range and from overflow, and the sign of a zero is not kept:  *)
(* -0.0 and 0.0 are equal and give the same answer in every comparison.    *)

\* A limb holds 15 binary digits, so that a product of two limbs is below 2^31.
LimbBase == 2^15

RECURSIVE BitLen(_)
\* The number of binary digits of the natural number n.
BitLen(n) == IF n = 0 THEN 0 ELSE 1 + BitLen(n \div 2)

LimbBits == BitLen(LimbBase) - 1

Rest(a) == IF Len(a) = 0 THEN <<>> ELSE Tail(a)

First(a) == IF Len(a) = 0 THEN 0 ELSE a[1]

RECURSIVE BigTrim(_)
\* The limbs of a without its leading (last) zero limbs.
BigTrim(a) ==
    IF Len(a) > 0 /\ a[Len(a)] = 0 THEN BigTrim(SubSeq(a, 1, Len(a) - 1)) ELSE a

RECURSIVE BigOf(_)
\* The limbs of the natural number n.
BigOf(n) == IF n = 0 THEN <<>> ELSE <<n % LimbBase>> \o BigOf(n \div LimbBase)

RECURSIVE BigToNat(_)
\* The natural number of a short list of limbs.
BigToNat(a) == IF Len(a) = 0 THEN 0 ELSE a[1] + LimbBase * BigToNat(Tail(a))

RECURSIVE BigAddCarry(_, _, _)
BigAddCarry(a, b, carry) ==
    IF Len(a) = 0 /\ Len(b) = 0
    THEN IF carry = 0 THEN <<>> ELSE <<carry>>
    ELSE LET t == First(a) + First(b) + carry
         IN  <<t % LimbBase>> \o BigAddCarry(Rest(a), Rest(b), t \div LimbBase)

BigAdd(a, b) == BigAddCarry(a, b, 0)

RECURSIVE BigSubBorrow(_, _, _)
BigSubBorrow(a, b, borrow) ==
    IF Len(a) = 0 THEN <<>>
    ELSE LET t == a[1] - First(b) - borrow
         IN  IF t < 0
             THEN <<t + LimbBase>> \o BigSubBorrow(Tail(a), Rest(b), 1)
             ELSE <<t>> \o BigSubBorrow(Tail(a), Rest(b), 0)

\* a - b, for a >= b.
BigSub(a, b) == BigTrim(BigSubBorrow(a, b, 0))

RECURSIVE BigCmpFrom(_, _, _)
BigCmpFrom(a, b, i) ==
    IF i = 0 THEN 0
    ELSE IF a[i] < b[i] THEN -1
    ELSE IF a[i] > b[i] THEN 1
    ELSE BigCmpFrom(a, b, i - 1)

\* -1, 0 or 1 as a is less than, equal to or greater than b.
BigCmp(a, b) ==
    IF Len(a) < Len(b) THEN -1
    ELSE IF Len(a) > Len(b) THEN 1
    ELSE BigCmpFrom(a, b, Len(a))

RECURSIVE BigMulLimb(_, _, _)
BigMulLimb(a, k, carry) ==
    IF Len(a) = 0
    THEN IF carry = 0 THEN <<>> ELSE <<carry>>
    ELSE LET t == a[1] * k + carry
         IN  <<t % LimbBase>> \o BigMulLimb(Tail(a), k, t \div LimbBase)

RECURSIVE BigMulFrom(_, _)
BigMulFrom(a, b) ==
    IF Len(b) = 0 THEN <<>>
    ELSE BigAdd(BigMulLimb(a, b[1], 0), <<0>> \o BigMulFrom(a, Tail(b)))

BigMul(a, b) == BigTrim(BigMulFrom(a, b))

\* a * 2^n.
BigShl(a, n) ==
    LET q == n \div LimbBits
        d == 2^(n % LimbBits)
    IN  BigTrim([i \in 1..q |-> 0] \o BigMulLimb(a, d, 0))

\* a \div 2^n.
BigShr(a, n) ==
    LET q == n \div LimbBits
        d == 2^(n % LimbBits)
        up == LimbBase \div d
        b == SubSeq(a, q + 1, Len(a))
    IN  BigTrim([i \in 1..Len(b) |->
                    (b[i] \div d) + (IF i < Len(b) THEN (b[i + 1] % d) * up ELSE 0)])

BigBitLen(a) ==
    IF Len(a) = 0 THEN 0 ELSE LimbBits * (Len(a) - 1) + BitLen(a[Len(a)])

RECURSIVE TrailingZeros(_)
TrailingZeros(n) == IF n % 2 = 1 THEN 0 ELSE 1 + TrailingZeros(n \div 2)

RECURSIVE BigTrailingZeros(_)
\* The number of zero binary digits at the low end of a, for a > 0.
BigTrailingZeros(a) ==
    IF a[1] = 0 THEN LimbBits + BigTrailingZeros(Tail(a)) ELSE TrailingZeros(a[1])

Zero == [s |-> 0, m |-> <<>>, e |-> 0]

\* The record of s * m * 2^e, for m > 0 with tz zero binary digits at its
\* low end.
Normalized(s, m, e, tz) == [s |-> s, m |-> BigShr(m, tz), e |-> e + tz]

\* The record of the number s * m * 2^e, for any natural m.
Dyadic(s, m, e) ==
    IF Len(m) = 0 \/ s = 0 THEN Zero ELSE Normalized(s, m, e, BigTrailingZeros(m))

\* The record of the integer n.
OfInt(n) ==
    Dyadic(IF n > 0 THEN 1 ELSE IF n < 0 THEN -1 ELSE 0,
           BigOf(IF n < 0 THEN -n ELSE n), 0)

\* The integer that x is, for a small integer x.
ToInt(x) == x.s * BigToNat(x.m) * 2^(x.e)

IsInteger(x) == x.e >= 0

Neg(x) == [x EXCEPT !.s = -x.s]

\* The exact product and the exact sum of two numbers.
ExactMul(x, y) == Dyadic(x.s * y.s, BigMul(x.m, y.m), x.e + y.e)

\* sx * mx * 2^e + sy * my * 2^e, where c compares mx with my: the sum of the
\* two magnitudes when the signs agree, else the larger less the smaller
\* with the sign of the larger.
AddMagnitudes(sx, sy, mx, my, e, c) ==
    Dyadic(IF sx = sy \/ c > 0 THEN sx ELSE IF c < 0 THEN sy ELSE 0,
           IF sx = sy
           THEN BigAdd(mx, my)
           ELSE BigSub(IF c >= 0 THEN mx ELSE my, IF c >= 0 THEN my ELSE mx),
           e)

AddAligned(sx, sy, mx, my, e) == AddMagnitudes(sx, sy, mx, my, e, BigCmp(mx, my))

\* x + y for x and y other than zero, both written with the exponent e.
AddAt(x, y, e) ==
    AddAligned(x.s, y.s, BigShl(x.m, x.e - e), BigShl(y.m, y.e - e), e)

ExactAdd(x, y) ==
    IF x.s = 0 THEN y
    ELSE IF y.s = 0 THEN x
    ELSE AddAt(x, y, IF x.e < y.e THEN x.e ELSE y.e)

ExactSub(x, y) == ExactAdd(x, Neg(y))

\* The f64 nearest to x, the one with the even significand of two that are
\* equally near: a significand has 53 binary digits.
\* x without its lowest shift binary digits: q is what is left of the
\* significand, and c compares what was dropped with one half.
RoundUp(x, shift, q, c) ==
    Dyadic(x.s,
           IF c > 0 \/ (c = 0 /\ q[1] % 2 = 1) THEN BigAdd(q, <<1>>) ELSE q,
           x.e + shift)

RoundQuotient(x, shift, q) ==
    RoundUp(x, shift, q,
            BigCmp(BigSub(x.m, BigShl(q, shift)), BigShl(<<1>>, shift - 1)))

RoundAt(x, shift) ==
    IF shift <= 0 THEN x ELSE RoundQuotient(x, shift, BigShr(x.m, shift))

RoundToF64(x) == RoundAt(x, BigBitLen(x.m) - 53)

\* The operators *, + and - of f64.
f64_mul(x, y) == RoundToF64(ExactMul(x, y))

f64_add(x, y) == RoundToF64(ExactAdd(x, y))

f64_sub(x, y) == RoundToF64(ExactSub(x, y))

\* The sign of x - y: the comparisons of f64.
Compare(x, y) == ExactSub(x, y).s

\* A point with integer coordinates.
OnLattice(p) == Len(p) = 2

\* Three points with integer coordinates.
OnLattice3(p1, p2, p3) == Len(p1) + Len(p2) + Len(p3) = 6

\* The coordinates of any point as f64 values.
F64X(p) == IF Len(p) = 2 THEN OfInt(p[1]) ELSE p[1]

F64Y(p) == IF Len(p) = 2 THEN OfInt(p[2]) ELSE p[2]

\* x is an integer of less than LimbBits binary digits.
IsSmallInteger(x) == IsInteger(x) /\ BigBitLen(x.m) + x.e < LimbBits

\* Point::new(x, y) of two f64 values: a pair of integers when both are
\* small integers, else the two values as they are.
PointOfF64(x, y) ==
    IF IsSmallInteger(x) /\ IsSmallInteger(y)
    THEN <<ToInt(x), ToInt(y)>>
    ELSE <<x, y, "f64">>

----------------------------------------------------------------------------
(* Triangle (triangle.rs).                                                 *)

\* Triangle::area of three points with small integer coordinates, as the
\* vertices of the polygons are.  Triangle::area is 0.5 * (t1 - t2);
\* TriangleDoubleArea is t1 - t2, that is twice the value the code returns,
\* so that the model stays in the integers: on these points the differences
\* and products of f64 are exact, and halving is exact and changes neither
\* sign nor zero.
TriangleDoubleArea(p1, p2, p3) ==
    LET t1 == (X(p2) - X(p1)) * (Y(p3) - Y(p1))
        t2 == (X(p3) - X(p1)) * (Y(p2) - Y(p1))
    IN  t1 - t2

\* Triangle::area with the two products added instead of subtracted.
TriangleAreaProductsAddedF64(p1, p2, p3) ==
    f64_add(f64_mul(f64_sub(F64X(p2), F64X(p1)), f64_sub(F64Y(p3), F64Y(p1))),
            f64_mul(f64_sub(F64X(p3), F64X(p1)), f64_sub(F64Y(p2), F64Y(p1))))

\* Triangle::area, doubled, of any three points: the same differences and
\* products, each rounded as f64 rounds it.
TriangleDoubleAreaF64(p1, p2, p3) ==
    f64_sub(f64_mul(f64_sub(F64X(p2), F64X(p1)), f64_sub(F64Y(p3), F64Y(p1))),
            f64_mul(f64_sub(F64X(p3), F64X(p1)), f64_sub(F64Y(p2), F64Y(p1))))

\* The sign of Triangle::area, which is what its callers compare with 0.0.
AreaSign(p1, p2, p3) == TriangleDoubleAreaF64(p1, p2, p3).s

has_collinear_points(p1, p2, p3) == TriangleDoubleArea(p1, p2, p3) = 0

(* Point (point.rs).  A segment ab is the pair <<a, b>> of its end points. *)

left(p, ab) == TriangleDoubleArea(ab[1], ab[2], p) > 0

left_on(p, ab) == TriangleDoubleArea(ab[1], ab[2], p) >= 0

\* The three sides p1p2, p2p3, p3p1 of the triangle.
to_line_segments(p1, p2, p3) == <<(<<p1, p2>>), (<<p2, p3>>), (<<p3, p1>>)>>

\* contains with the strict test left in place of left_on.
contains_strict(p1, p2, p3, p) ==
    IF has_collinear_points(p1, p2, p3)
    THEN FALSE
    ELSE \A i \in 1..3 : left(p, to_line_segments(p1, p2, p3)[i])

contains(p1, p2, p3, p) ==
    IF has_collinear_points(p1, p2, p3)
    THEN FALSE
    ELSE \A i \in 1..3 : left_on(p, to_line_segments(p1, p2, p3)[i])

\* between with the range (e1..e2) only, without the range (e2..e1).
between_one_range(p, a, b) ==
    /\ has_collinear_points(a, b, p)
    /\ LET vertical == X(a) = X(b)
           e1 == IF vertical THEN Y(a) ELSE X(a)
           e2 == IF vertical THEN Y(b) ELSE X(b)
           check == IF vertical THEN Y(p) ELSE X(p)
       IN  e1 <= check /\ check < e2

\* Point::between of three points with integer coordinates: collinear with
\* a and b, and the coordinate on the tested axis inside one of the two
\* half-open ranges e1..e2, e2..e1 of the code.
between(p, a, b) ==
    IF ~has_collinear_points(a, b, p)
    THEN FALSE
    ELSE LET vertical == X(a) = X(b)
             e1 == IF vertical THEN Y(a) ELSE X(a)
             e2 == IF vertical THEN Y(b) ELSE X(b)
             check == IF vertical THEN Y(p) ELSE X(p)
         IN  (e1 <= check /\ check < e2) \/ (e2 <= check /\ check < e1)

\* Point::between of three points one of which a rotation has moved off the
\* integers, with the comparisons of f64.
between_f64(p, a, b) ==
    IF AreaSign(a, b, p) # 0
    THEN FALSE
    ELSE LET vertical == Compare(F64X(a), F64X(b)) = 0
             e1 == IF vertical THEN F64Y(a) ELSE F64X(a)
             e2 == IF vertical THEN F64Y(b) ELSE F64X(b)
             check == IF vertical THEN F64Y(p) ELSE F64X(p)
         IN  \/ Compare(e1, check) <= 0 /\ Compare(check, e2) < 0
             \/ Compare(e2, check) <= 0 /\ Compare(check, e1) < 0

\* Point::between of any three points.
PointsBetween(p, a, b) ==
    IF OnLattice3(p, a, b) THEN between(p, a, b) ELSE between_f64(p, a, b)

\* std::f64::consts::PI
PI == [s |-> 1, m |-> <<1443, 21777, 4349, 25>>, e |-> -48]

\* PI / 2.0
HalfPi == [s |-> 1, m |-> <<1443, 21777, 4349, 25>>, e |-> -49]

\* The angles a point is rotated by.
Radians == {Zero, HalfPi, PI}

\* f64::cos and f64::sin of the angles of Radians.
cos(radians) ==
    CASE radians = Zero -> OfInt(1)
      [] radians = HalfPi -> [s |-> 1, m |-> <<23559, 26152, 6296, 141>>, e |-> -106]
      [] radians = PI -> OfInt(-1)

sin(radians) ==
    CASE radians = Zero -> Zero
      [] radians = HalfPi -> OfInt(1)
      [] radians = PI -> [s |-> 1, m |-> <<23559, 26152, 6296, 141>>, e |-> -105]

\* Point::rotate_about_point: the point that p is afterwards.
rotate_about_point(p, radians, point) ==
    LET cos_theta == cos(radians)
        sin_theta == sin(radians)
        x_diff == f64_sub(F64X(p), F64X(point))
        y_diff == f64_sub(F64Y(p), F64Y(point))
        x1 == f64_add(f64_sub(f64_mul(x_diff, cos_theta), f64_mul(y_diff, sin_theta)),
                      F64X(point))
        y1 == f64_add(f64_add(f64_mul(x_diff, sin_theta), f64_mul(y_diff, cos_theta)),
                      F64Y(point))
    IN  PointOfF64(x1, y1)

\* Point::rotate_about_origin
rotate_about_origin(p, radians) == rotate_about_point(p, radians, <<0, 0>>)

----------------------------------------------------------------------------
(* LineSegment (line_segment.rs is not part of the sources at hand; these  *)
(* follow section 4.1 of the specification).  A segment between vertices   *)
(* is the pair <<i, j>> of their ids.                                      *)

reverse(ab) == <<ab[2], ab[1]>>

\* The segment of the coordinates of a segment of vertex ids.
Coords(ab) == <<pts[ab[1]], pts[ab[2]]>>

proper_intersects(ab, cd) ==
    LET a == ab[1]
        b == ab[2]
        c == cd[1]
        d == cd[2]
    IN  IF \/ has_collinear_points(a, b, c)
           \/ has_collinear_points(a, b, d)
           \/ has_collinear_points(c, d, a)
           \/ has_collinear_points(c, d, b)
        THEN FALSE
        ELSE /\ left(c, ab) # left(d, ab)
             /\ left(a, cd) # left(b, cd)

improper_intersects(ab, cd) ==
    \/ between(cd[1], ab[1], ab[2])
    \/ between(cd[2], ab[1], ab[2])
    \/ between(ab[1], cd[1], cd[2])
    \/ between(ab[2], cd[1], cd[2])

intersects(ab, cd) == proper_intersects(ab, cd) \/ improper_intersects(ab, cd)

\* Two segments of vertices share an end point.
connected_to(e, ab) == {e[1], e[2]} \cap {ab[1], ab[2]} # {}

----------------------------------------------------------------------------
(* Polygon (polygon.rs).                                                   *)

\* No Polygon value: Polygon::new panicked.  Vertex ids start at 1; 0 is no vertex.
NoPolygon == [anchor |-> 0, neighbors |-> <<>>, panic |-> TRUE]

\* HashMap::insert
Insert(m, k, v) == [x \in (DOMAIN m) \cup {k} |-> IF x = k THEN v ELSE m[x]]

\* HashMap::remove
Remove(m, k) == [x \in (DOMAIN m) \ {k} |-> m[x]]

\* The loop body of Polygon::new with the pair stored for the first vertex
\* written as (v1, last) instead of (last, v1).
NewWindowFirstSwapped(m, vertices, i) ==
    LET first == vertices[1]
        last == Last(vertices)
        w0 == vertices[i]
        w1 == vertices[i + 1]
        w2 == vertices[i + 2]
        m1 == Insert(m, w1, <<w0, w2>>)
        m2 == IF w0 = first THEN Insert(m1, w0, <<w1, last>>) ELSE m1
    IN  IF w2 = last THEN Insert(m2, w2, <<w1, first>>) ELSE m2

\* The body of the loop of Polygon::new for the i-th window (v0, v1, v2).
NewWindow(m, vertices, i) ==
    LET first == vertices[1]
        last == Last(vertices)
        w0 == vertices[i]
        w1 == vertices[i + 1]
        w2 == vertices[i + 2]
        m1 == Insert(m, w1, <<w0, w2>>)
        m2 == IF w0 = first THEN Insert(m1, w0, <<last, w1>>) ELSE m1
    IN  IF w2 = last THEN Insert(m2, w2, <<w1, first>>) ELSE m2

RECURSIVE NewWindows(_, _)
\* The neighbor map after the first k windows of tuple_windows.
NewWindows(vertices, k) ==
    IF k <= 0 THEN <<>>
    ELSE NewWindow(NewWindows(vertices, k - 1), vertices, k)

\* Polygon::new: indexing vertices[0] panics on an empty list; a list of one
\* or two vertices has no window and yields an empty neighbor map.
PolygonNew(vertices) ==
    IF Len(vertices) = 0
    THEN NoPolygon
    ELSE [anchor |-> vertices[1],
          neighbors |-> NewWindows(vertices, Len(vertices) - 2),
          panic |-> FALSE]

neighbors(P, v) == P.neighbors[v]

RECURSIVE VerticesFrom(_, _, _)
VerticesFrom(P, current, acc) ==
    LET next == P.neighbors[current][2]
    IN  IF next = P.anchor
        THEN Append(acc, current)
        ELSE VerticesFrom(P, next, Append(acc, current))

vertices(P) == VerticesFrom(P, P.anchor, <<>>)

RECURSIVE EdgesFromOpen(_, _, _)
\* The walk of edges() that tests for the anchor before it pushes the edge
\* into it.
EdgesFromOpen(P, current, acc) ==
    LET next == P.neighbors[current][2]
    IN  IF next = P.anchor
        THEN acc
        ELSE EdgesFromOpen(P, next, Append(acc, <<current, next>>))

RECURSIVE EdgesFrom(_, _, _)
EdgesFrom(P, current, acc) ==
    LET next == P.neighbors[current][2]
    IN  IF next = P.anchor
        THEN Append(acc, <<current, next>>)
        ELSE EdgesFrom(P, next, Append(acc, <<current, next>>))

edges(P) == EdgesFrom(P, P.anchor, <<>>)

\* Triangle::double_area, which Polygon::double_area calls (triangle.rs at
\* hand has area only): twice the signed area, an integer.
triangle_double_area(p1, p2, p3) == TriangleDoubleArea(p1, p2, p3)

RECURSIVE AreaSumEdgeReversed(_, _, _)
\* double_area with each triangle built as (anchor, e.v2, e.v1).
AreaSumEdgeReversed(P, es, k) ==
    IF k = 0 THEN 0
    ELSE AreaSumEdgeReversed(P, es, k - 1)
         + triangle_double_area(pts[P.anchor], pts[es[k][2]], pts[es[k][1]])

RECURSIVE AreaSum(_, _, _)
\* The running sum `area` of double_area after the first k edges.
AreaSum(P, es, k) ==
    IF k = 0 THEN 0
    ELSE AreaSum(P, es, k - 1)
         + triangle_double_area(pts[P.anchor], pts[es[k][1]], pts[es[k][2]])

double_area(P) == AreaSum(P, edges(P), Len(edges(P)))

\* in_cone with the test of a convex vertex for every vertex.
in_cone_as_convex(P, ab) ==
    LET a == ab[1]
        ba == reverse(ab)
        a0 == neighbors(P, a)[1]
        a1 == neighbors(P, a)[2]
    IN  left(pts[a0], Coords(ab)) /\ left(pts[a1], Coords(ba))

in_cone(P, ab) ==
    LET a == ab[1]
        ba == reverse(ab)
        a0 == neighbors(P, a)[1]
        a1 == neighbors(P, a)[2]
    IN  IF left_on(pts[a0], Coords(<<a, a1>>))
        THEN left(pts[a0], Coords(ab)) /\ left(pts[a1], Coords(ba))
        ELSE ~(left_on(pts[a1], Coords(ab)) /\ left_on(pts[a0], Coords(ba)))

diagonal_internal_external(P, ab) ==
    \A i \in 1..Len(edges(P)) :
        LET e == edges(P)[i]
        IN  ~(~connected_to(e, ab) /\ intersects(Coords(e), Coords(ab)))

\* diagonal without the scan of the boundary edges.
diagonal_in_cone_only(P, ab) == in_cone(P, ab) /\ in_cone(P, reverse(ab))

diagonal(P, ab) ==
    in_cone(P, ab) /\ in_cone(P, reverse(ab)) /\ diagonal_internal_external(P, ab)

----------------------------------------------------------------------------
(* The inputs: vertex lists over the lattice and the polygons of the       *)
(* library's own tests.                                                    *)

\* Orientation of three points, for describing the inputs and the claims.
Orient(a, b, c) ==
    (X(b) - X(a)) * (Y(c) - Y(a)) - (X(c) - X(a)) * (Y(b) - Y(a))

\* p lies on the closed segment from a to b.
OnSegment(p, a, b) ==
    /\ Orient(a, b, p) = 0
    /\ (X(p) - X(a)) * (X(p) - X(b)) <= 0
    /\ (Y(p) - Y(a)) * (Y(p) - Y(b)) <= 0

\* The closed segments ab and cd have a point in common.
SegmentsMeet(a, b, c, d) ==
    \/ OnSegment(c, a, b) \/ OnSegment(d, a, b)
    \/ OnSegment(a, c, d) \/ OnSegment(b, c, d)
    \/ /\ Orient(a, b, c) * Orient(a, b, d) < 0
       /\ Orient(c, d, a) * Orient(c, d, b) < 0

\* The closed polyline through the points of s is a simple polygon: its
\* points are distinct, consecutive edges meet in their common end point
\* only, and no other two edges meet.
IsSimple(s) ==
    LET n == Len(s)
        nx(i) == (i % n) + 1
    IN  /\ n >= 3
        /\ \A i, j \in 1..n : i # j => s[i] # s[j]
        /\ \A i \in 1..n : ~OnSegment(s[nx(nx(i))], s[i], s[nx(i)])
        /\ \A i \in 1..n : ~OnSegment(s[i], s[nx(i)], s[nx(nx(i))])
        /\ \A i, j \in 1..n :
              (i < j /\ nx(i) # j /\ nx(j) # i)
                  => ~SegmentsMeet(s[i], s[nx(i)], s[j], s[nx(j)])

\* Twice the signed area enclosed by the closed polyline (shoelace formula).
Shoelace(s) ==
    LET n == Len(s)
        term[i \in 0..n] ==
            IF i = 0 THEN 0
            ELSE term[i - 1] + X(s[i]) * Y(s[(i % n) + 1])
                             - X(s[(i % n) + 1]) * Y(s[i])
    IN  term[n]

\* A simple polygon is counter-clockwise when its boundary turns left at its
\* lowest vertex (the rightmost of its lowest vertices).
IsCCW(s) ==
    LET n == Len(s)
        low == CHOOSE i \in 1..n :
                  \A j \in 1..n :
                      \/ Y(s[i]) < Y(s[j])
                      \/ (Y(s[i]) = Y(s[j]) /\ X(s[i]) >= X(s[j]))
    IN  Orient(s[((low + n - 2) % n) + 1], s[low], s[(low % n) + 1]) > 0

RECURSIVE Chains(_)
\* The lists of k distinct lattice points whose open polyline does not touch
\* itself.
Chains(k) ==
    IF k = 0 THEN {<<>>}
    ELSE UNION {
           {Append(c, p) :
              p \in {q \in Grid :
                       /\ \A i \in 1..Len(c) : c[i] # q
                       /\ Len(c) >= 2 => ~OnSegment(c[Len(c) - 1], c[Len(c)], q)
                       /\ Len(c) >= 2 => ~OnSegment(q, c[Len(c) - 1], c[Len(c)])
                       /\ \A i \in 1..(Len(c) - 2) :
                            ~SegmentsMeet(c[i], c[i + 1], c[Len(c)], q)}}
           : c \in Chains(k - 1)}

\* Every simple polygon with 3..MaxN vertices on the lattice, in both
\* orientations and from every starting vertex.
LatticePolygons == UNION {{c \in Chains(n) : IsSimple(c)} : n \in 3..MaxN}

\* Vertex lists too short to be a polygon.
ShortLists == UNION {Chains(n) : n \in 0..2}

right_triangle == <<(<<0, 0>>), (<<3, 0>>), (<<0, 4>>)>>

square_4x4 == <<(<<0, 0>>), (<<4, 0>>), (<<4, 4>>), (<<0, 4>>)>>

polygon_1 ==
    <<(<<0, 0>>), (<<3, 4>>), (<<6, 2>>), (<<7, 6>>), (<<3, 9>>), (<<-2, 7>>)>>

polygon_2 ==
    <<(<<0, 0>>), (<<12, 9>>), (<<14, 4>>), (<<24, 10>>), (<<14, 24>>),
      (<<11, 17>>), (<<13, 19>>), (<<14, 12>>), (<<9, 13>>), (<<7, 18>>),
      (<<11, 21>>), (<<8, 24>>), (<<1, 22>>), (<<2, 18>>), (<<4, 20>>),
      (<<6, 10>>), (<<-2, 11>>), (<<6, 6>>)>>

Fixtures == {right_triangle, square_4x4, polygon_1, polygon_2}

Polygons == LatticePolygons \cup Fixtures

----------------------------------------------------------------------------
(* The driver: construction and the queries on the constructed polygon.    *)
(* As in the library's tests, a polygon is built and then put to use:      *)
(* queries, or one triangulation and one run of every hull computer.       *)

Idle ==
    /\ out = [op |-> "none"]
    /\ t_neighbors = <<>>
    /\ t_anchor = 0
    /\ v2 = 0
    /\ triangulation = <<>>
    /\ tpc = "idle"
    /\ clipped = -1
    /\ hulls = <<>>
    /\ split_stack = <<>>
    /\ merge_stack = <<>>
    /\ dpc = "idle"
    /\ merge_call = <<>>
    /\ ranges = [split |-> <<>>, merge |-> <<>>, call |-> <<>>]

Init ==
    /\ pts \in Polygons \cup ShortLists
    /\ pc = "input"
    /\ polygon = NoPolygon
    /\ Idle

\* Polygon::new(vertices), as Polygon::from_vmap calls it.
New ==
    /\ pc = "input"
    /\ polygon' = PolygonNew(Ids(pts))
    /\ pc' = IF PolygonNew(Ids(pts)).panic THEN "panic" ELSE "built"
    /\ UNCHANGED <<pts, out, t_neighbors, t_anchor, v2, triangulation, tpc,
                   clipped, hulls, dcvars>>

\* A query looks its anchor up in the neighbor map and panics without it.
Answer(op, val) ==
    IF polygon.anchor \in DOMAIN polygon.neighbors
    THEN [op |-> op, val |-> val]
    ELSE [op |-> op, panic |-> TRUE]

QueryFrame == UNCHANGED <<pts, pc, polygon, t_neighbors, t_anchor, v2,
                          triangulation, tpc, clipped, hulls, dcvars>>

Vertices ==
    /\ pc = "built"
    /\ tpc = "idle"
    /\ hulls = <<>>
    /\ out' = Answer("vertices", vertices(polygon))
    /\ QueryFrame

Edges ==
    /\ pc = "built"
    /\ tpc = "idle"
    /\ hulls = <<>>
    /\ out' = Answer("edges", edges(polygon))
    /\ QueryFrame

DoubleArea ==
    /\ pc = "built"
    /\ tpc = "idle"
    /\ hulls = <<>>
    /\ out' = Answer("double_area", double_area(polygon))
    /\ QueryFrame

\* polygon.diagonal(&LineSegment::new(a, b)) for two of its vertices.
Diagonal ==
    /\ pc = "built"
    /\ tpc = "idle"
    /\ out.op = "none"
    /\ hulls = <<>>
    /\ \E a \in DOMAIN polygon.neighbors :
       \E b \in DOMAIN polygon.neighbors \ {a} :
          out' = [op |-> "diagonal", a |-> a, b |-> b,
                  val |-> diagonal(polygon, <<a, b>>)]
    /\ QueryFrame

\* polygon.in_cone(&LineSegment::new(a, b)) for two of its vertices.
InCone ==
    /\ pc = "built"
    /\ tpc = "idle"
    /\ out.op = "none"
    /\ hulls = <<>>
    /\ \E a \in DOMAIN polygon.neighbors :
       \E b \in DOMAIN polygon.neighbors \ {a} :
          out' = [op |-> "in_cone", a |-> a, b |-> b,
                  val |-> in_cone(polygon, <<a, b>>)]
    /\ QueryFrame

----------------------------------------------------------------------------
(* Polygon::triangulation, one action per step of its loops.               *)

\* let mut triangulation, neighbors = self.neighbors.clone(), anchor
TriStart ==
    /\ pc = "built"
    /\ tpc = "idle"
    /\ out.op = "none"
    /\ hulls = <<>>
    /\ t_neighbors' = polygon.neighbors
    /\ t_anchor' = polygon.anchor
    /\ triangulation' = <<>>
    /\ tpc' = "while"
    /\ UNCHANGED <<pts, pc, polygon, out, v2, clipped, hulls, dcvars>>

\* The while test with the bound 2 in place of 3.
TriWhileAboveTwo ==
    /\ tpc = "while"
    /\ IF Cardinality(DOMAIN t_neighbors) > 2
       THEN /\ v2' = t_anchor
            /\ clipped' = 0
            /\ tpc' = "loop"
            /\ out' = out
       ELSE /\ tpc' = "returned"
            /\ out' = [op |-> "triangulation", val |-> triangulation]
            /\ UNCHANGED <<v2, clipped>>
    /\ UNCHANGED <<pts, pc, polygon, t_neighbors, t_anchor, triangulation, hulls, dcvars>>

\* The test of `while neighbors.len() > 3`, and the return after the loop.
TriWhile ==
    /\ tpc = "while"
    /\ IF Cardinality(DOMAIN t_neighbors) > 3
       THEN /\ v2' = t_anchor
            /\ clipped' = 0
            /\ tpc' = "loop"
            /\ out' = out
       ELSE /\ tpc' = "returned"
            /\ out' = [op |-> "triangulation", val |-> triangulation]
            /\ UNCHANGED <<v2, clipped>>
    /\ UNCHANGED <<pts, pc, polygon, t_neighbors, t_anchor, triangulation, hulls, dcvars>>

\* The splice that rewrites the entry of v1 and leaves the entry of v3 as it
\* was.
ClipOneSided(m, v1, v3) ==
    LET v0 == m[v1][1]
    IN  Insert(m, v1, <<v0, v3>>)

\* The neighbor map after ear v2, with neighbors (v1, v3), has been removed
\* and v1 and v3 spliced to each other.
Clip(m, v1, v3) ==
    LET v4 == m[v3][2]
        v0 == m[v1][1]
    IN  Insert(Insert(m, v1, <<v0, v3>>), v3, <<v1, v4>>)

\* One iteration of the inner loop when `neighbors` is the polygon's own map
\* instead of a clone of it: every removal and splice lands in the polygon.
TriLoopInPlace ==
    /\ tpc = "loop"
    /\ IF v2 \notin DOMAIN t_neighbors
       THEN /\ tpc' = "panic"
            /\ UNCHANGED <<t_neighbors, t_anchor, v2, triangulation, clipped>>
       ELSE LET v1 == t_neighbors[v2][1]
                v3 == t_neighbors[v2][2]
                removed == Remove(t_neighbors, v2)
                ear == diagonal(polygon, <<v1, v3>>)
                anchor == IF ear THEN v3 ELSE t_anchor
            IN  /\ t_neighbors' = IF ear THEN Clip(removed, v1, v3)
                                         ELSE Insert(removed, v2, <<v1, v3>>)
                /\ triangulation' = IF ear THEN Append(triangulation, <<v1, v3>>)
                                           ELSE triangulation
                /\ clipped' = IF ear THEN clipped + 1 ELSE clipped
                /\ t_anchor' = anchor
                /\ v2' = v3
                /\ tpc' = IF v3 = anchor THEN "while" ELSE "loop"
    /\ polygon' = [polygon EXCEPT !.neighbors = t_neighbors']
    /\ UNCHANGED <<pts, pc, out, hulls, dcvars>>

\* One iteration of the inner `loop`.
TriLoop ==
    /\ tpc = "loop"
    /\ IF v2 \notin DOMAIN t_neighbors
       THEN /\ tpc' = "panic"
            /\ UNCHANGED <<t_neighbors, t_anchor, v2, triangulation, clipped>>
       ELSE LET v1 == t_neighbors[v2][1]
                v3 == t_neighbors[v2][2]
                removed == Remove(t_neighbors, v2)
                ear == diagonal(polygon, <<v1, v3>>)
                anchor == IF ear THEN v3 ELSE t_anchor
            IN  /\ t_neighbors' = IF ear THEN Clip(removed, v1, v3)
                                         ELSE Insert(removed, v2, <<v1, v3>>)
                /\ triangulation' = IF ear THEN Append(triangulation, <<v1, v3>>)
                                           ELSE triangulation
                /\ clipped' = IF ear THEN clipped + 1 ELSE clipped
                /\ t_anchor' = anchor
                /\ v2' = v3
                /\ tpc' = IF v3 = anchor THEN "while" ELSE "loop"
    /\ UNCHANGED <<pts, pc, polygon, out, hulls, dcvars>>

----------------------------------------------------------------------------
(* Helpers of the hull computers that live outside convex_hull.rs          *)
(* (polygon.rs, vertex.rs, line_segment.rs and geometry.rs of the hull's   *)
(* revision are not part of the sources at hand; these follow sections     *)
(* 4.1, 4.2 and 4.5 of the specification and the names used by the code).  *)

\* Lexicographic order on tuples of integers of one length.
KeyLess(k1, k2) ==
    \E i \in 1..Len(k1) : k1[i] < k2[i] /\ \A j \in 1..(i - 1) : k1[j] = k2[j]

\* A stable sort of s by the keys listed beside it (sort_by_key, sorted_by_key).
SortByKey(s, keys) ==
    LET ks == SubSeq(keys, 1, Len(keys))
        before(i, j) == KeyLess(ks[i], ks[j]) \/ (ks[i] = ks[j] /\ i < j)
        order == SortSeq(Ids(s), before)
    IN  [r \in 1..Len(s) |-> s[order[r]]]

\* The elements of s at the positions of the set keep, in their order.
AtPositions(s, keep) ==
    LET order == SelectSeq(Ids(s), LAMBDA i : i \in keep)
    IN  [r \in 1..Len(order) |-> s[order[r]]]

\* The elements of s whose key differs from the key of their predecessor
\* (dedup_by on an equality of keys): of a run of equal keys the first stays.
DedupByKey(s, keys) ==
    AtPositions(s, {i \in 1..Len(s) : i = 1 \/ keys[i] # keys[i - 1]})

\* The elements of s that satisfy a test, given as the set of those that do.
Filter(s, good) == SelectSeq(s, LAMBDA x : x \in good)

\* Polygon::vertex_ids, Polygon::vertices: the vertices in boundary order.
vertex_ids == Ids(pts)

\* Vertex::right: strictly right of the directed segment.
right(p, ab) == TriangleDoubleArea(ab[1], ab[2], p) < 0

\* Vertex::distance_to, Polygon::distance_between: the Euclidean distance,
\* kept as its square, which orders and equates distances as the root does.
distance_squared(p, q) ==
    (X(p) - X(q)) * (X(p) - X(q)) + (Y(p) - Y(q)) * (Y(p) - Y(q))

\* LineSegment::distance_to_vertex: the distance of p from the line through
\* ab, kept as |cross| which, for one ab, orders distances as the code does.
distance_to_vertex(ab, p) ==
    LET dd == TriangleDoubleArea(ab[1], ab[2], p)
    IN  IF dd < 0 THEN -dd ELSE dd

\* The vertex among ids with the least key (the first one in the order of
\* ids when several share it).
MinByKey(ids, keys) == SortByKey(ids, keys)[1]

\* lowest first, the rightmost of the lowest
rightmost_lowest_vertex(ids) ==
    MinByKey(ids, [i \in 1..Len(ids) |-> <<Y(pts[ids[i]]), -X(pts[ids[i]])>>])

\* rightmost first, the lowest of the rightmost
lowest_rightmost_vertex(ids) ==
    MinByKey(ids, [i \in 1..Len(ids) |-> <<-X(pts[ids[i]]), Y(pts[ids[i]])>>])

\* rightmost first, the highest of the rightmost
highest_rightmost_vertex(ids) ==
    MinByKey(ids, [i \in 1..Len(ids) |-> <<-X(pts[ids[i]]), -Y(pts[ids[i]])>>])

\* leftmost first, the lowest of the leftmost
lowest_leftmost_vertex(ids) ==
    MinByKey(ids, [i \in 1..Len(ids) |-> <<X(pts[ids[i]]), Y(pts[ids[i]])>>])

\* leftmost first, the highest of the leftmost
highest_leftmost_vertex(ids) ==
    MinByKey(ids, [i \in 1..Len(ids) |-> <<X(pts[ids[i]]), -Y(pts[ids[i]])>>])

\* LineSegment::angle_to_vertex orders points by the counter-clockwise angle,
\* in [0, 2 pi), from the direction of e = <<p1, p2>> to the direction from
\* p2 to the point.  AngleClass is the quarter of that range the angle is
\* in: 0 (angle 0), 1 (below pi), 2 (pi), 3 (above pi).
AngleClass(e, p) ==
    LET dx == X(e[2]) - X(e[1])
        dy == Y(e[2]) - Y(e[1])
        ux == X(p) - X(e[2])
        uy == Y(p) - Y(e[2])
        cross == dx * uy - dy * ux
        dot == dx * ux + dy * uy
    IN  IF cross = 0 THEN (IF dot >= 0 THEN 0 ELSE 2)
        ELSE IF cross > 0 THEN 1 ELSE 3

\* angle_to_vertex(p) < angle_to_vertex(q)
AngleLess(e, p, q) ==
    \/ AngleClass(e, p) < AngleClass(e, q)
    \/ /\ AngleClass(e, p) = AngleClass(e, q)
       /\ AngleClass(e, p) \in {1, 3}
       /\ TriangleDoubleArea(e[2], p, q) > 0

\* An integer that orders the vertices of ids as angle_to_vertex does.
AngleRank(e, ids, v) ==
    Cardinality({i \in 1..Len(ids) : AngleLess(e, pts[ids[i]], pts[v])})

\* The sorted list with the nearest vertex of every angle first.
MinAngleSortedNearest(e, v_i, ids) ==
    LET others == Filter(ids, Range(ids) \ {v_i})
        ranks == [i \in 1..Len(others) |-> <<AngleRank(e, others, others[i])>>]
        angle == SubSeq(ranks, 1, Len(others))
        keys == [i \in 1..Len(others) |->
                    <<angle[i][1], distance_squared(pts[v_i], pts[others[i]])>>]
        sorted == SortByKey(others, keys)
        sorted_angle == SortByKey(angle, keys)
    IN  DedupByKey(sorted, sorted_angle)

\* The vertices of ids other than v_i, sorted by (angle from e, farthest from
\* v_i first) and reduced to the first vertex of every angle.
MinAngleSorted(e, v_i, ids) ==
    LET others == Filter(ids, Range(ids) \ {v_i})
        ranks == [i \in 1..Len(others) |-> <<AngleRank(e, others, others[i])>>]
        angle == SubSeq(ranks, 1, Len(others))
        keys == [i \in 1..Len(others) |->
                    <<angle[i][1], -distance_squared(pts[v_i], pts[others[i]])>>]
        sorted == SortByKey(others, keys)
        sorted_angle == SortByKey(angle, keys)
    IN  DedupByKey(sorted, sorted_angle)

\* The horizontal segment that ends in vertex v0, one unit long.
HorizontalInto(v0) == <<(<<X(pts[v0]) - 1, Y(pts[v0])>>), pts[v0]>>

\* Polygon::min_angle_sorted_vertices
min_angle_sorted_vertices ==
    LET v0 == rightmost_lowest_vertex(vertex_ids)
    IN  MinAngleSorted(HorizontalInto(v0), v0, vertex_ids)

----------------------------------------------------------------------------
(* The hull computers (convex_hull.rs).  A computer returns the set `ids`   *)
(* of the vertex ids of its hull polygon (kind "hull"), or panics on a     *)
(* failed assertion or index (kind "panic"), or never returns because one  *)
(* of its loops never ends (kind "diverges").                              *)

\* Polygon::get_polygon(ids, true): the boundary cycle of the returned polygon
\* visits the given vertices in their original relative order, which is the
\* order of their ids.
get_polygon(ids) ==
    SortSeq(SelectSeq(vertex_ids, LAMBDA v : v \in ids), LAMBDA v, w : v < w)

Hull(ids) == [kind |-> "hull", ids |-> ids]

Panic(why) == [kind |-> "panic", ids |-> {}, why |-> why]

Diverges == [kind |-> "diverges", ids |-> {}]

\* An intermediate list of ids that a step of a computer hands on.
Ok(seq) == [kind |-> "ok", seq |-> seq]

\* The boundary cycle of the polygon a computer has returned.
HullCycle(hull) == get_polygon(hull.ids)

\* InteriorPoints::interior_points
interior_points ==
    LET n == Len(pts)
    IN  {v \in 1..n :
            \E i, j, k \in (1..n) \ {v} :
                /\ i # j /\ i # k /\ j # k
                /\ contains(pts[i], pts[j], pts[k], pts[v])}

InteriorPoints_convex_hull == Hull(Range(vertex_ids) \ interior_points)

\* permutations(2) of the ids, in the order itertools yields them.
Permutations2(ids) ==
    LET n == Len(ids)
        pairs == [r \in 1..(n * n) |-> <<ids[((r - 1) \div n) + 1], ids[((r - 1) % n) + 1]>>]
    IN  Filter(pairs, {pr \in Range(pairs) : pr[1] # pr[2]})

\* The test of the inner loop of extreme_edges.
is_extreme(pr) ==
    \A id3 \in Range(vertex_ids) \ {pr[1], pr[2]} : left_on(pts[id3], Coords(pr))

\* remove_collinear with its first sort and dedup only.
remove_collinear_by_start(es) ==
    LET key1 == [i \in 1..Len(es) |->
                    <<es[i][1], -distance_squared(pts[es[i][1]], pts[es[i][2]])>>]
        s1 == SortByKey(es, key1)
    IN  DedupByKey(s1, [i \in 1..Len(s1) |-> s1[i][1]])

\* ExtremeEdges::remove_collinear
remove_collinear(es) ==
    LET key1 == [i \in 1..Len(es) |->
                    <<es[i][1], -distance_squared(pts[es[i][1]], pts[es[i][2]])>>]
        s1 == SortByKey(es, key1)
        d1 == DedupByKey(s1, [i \in 1..Len(s1) |-> s1[i][1]])
        key2 == [i \in 1..Len(d1) |->
                    <<d1[i][2], -distance_squared(pts[d1[i][1]], pts[d1[i][2]])>>]
        s2 == SortByKey(d1, key2)
    IN  DedupByKey(s2, [i \in 1..Len(s2) |-> s2[i][2]])

\* ExtremeEdges::extreme_edges
extreme_edges ==
    LET perms == Permutations2(vertex_ids)
    IN  remove_collinear(Filter(perms, {pr \in Range(perms) : is_extreme(pr)}))

ExtremeEdges_convex_hull ==
    LET es == extreme_edges
    IN  Hull(UNION {{es[i][1], es[i][2]} : i \in 1..Len(es)})

RECURSIVE GiftWrap(_, _, _, _)
\* The loop of GiftWrapping::convex_hull, with edge e, terminal vertex v_i and
\* the ids inserted so far.  A walk that comes back to a vertex other than
\* v0 never reaches v0 again.
GiftWrap(v0, e, v_i, hull_ids) ==
    LET sorted == MinAngleSorted(e, v_i, vertex_ids)
    IN  IF Len(sorted) = 0 THEN Panic("index out of bounds")
        ELSE LET v_min_angle == sorted[1]
             IN  IF v_min_angle = v0 THEN Hull(hull_ids)
                 ELSE IF v_min_angle \in hull_ids THEN Diverges
                 ELSE GiftWrap(v0, Coords(<<v_i, v_min_angle>>), v_min_angle,
                               hull_ids \cup {v_min_angle})

GiftWrapping_convex_hull ==
    LET v0 == rightmost_lowest_vertex(vertex_ids)
    IN  GiftWrap(v0, HorizontalInto(v0), v0, {v0})

\* max_by_key(|v| distance from ab): the last of the vertices of s that are
\* farthest from ab.
FarthestFrom(ab, s) ==
    LET best == {i \in 1..Len(s) :
                    \A j \in 1..Len(s) :
                        distance_to_vertex(Coords(ab), pts[s[j]])
                            <= distance_to_vertex(Coords(ab), pts[s[i]])}
    IN  s[CHOOSE i \in best : \A j \in best : j <= i]

\* The vertices of s strictly right of the segment ab of vertices.
RightOf(ab, s) == Filter(s, {v \in Range(s) : right(pts[v], Coords(ab))})

RECURSIVE QuickHullLoop(_, _)
\* The `while !stack.is_empty()` loop of QuickHull::convex_hull.
QuickHullLoop(stack, hull_ids) ==
    IF Len(stack) = 0 THEN Hull(hull_ids)
    ELSE LET top == Last(stack)
             a == top[1]
             b == top[2]
             s == top[3]
             c == FarthestFrom(<<a, b>>, s)
             s1 == RightOf(<<a, c>>, s)
             s2 == RightOf(<<c, b>>, s)
             popped == SubSeq(stack, 1, Len(stack) - 1)
             push1 == IF Len(s1) > 0 THEN Append(popped, <<a, c, s1>>) ELSE popped
             push2 == IF Len(s2) > 0 THEN Append(push1, <<c, b, s2>>) ELSE push1
         IN  QuickHullLoop(push2, hull_ids \cup {c})

QuickHull_convex_hull ==
    LET x == lowest_rightmost_vertex(vertex_ids)
        y == highest_leftmost_vertex(vertex_ids)
        s == Filter(vertex_ids, Range(vertex_ids) \ {x, y})
        s1 == RightOf(<<x, y>>, s)
        s2 == Filter(s, Range(s) \ Range(s1))
        push1 == IF Len(s1) > 0 THEN <<(<<x, y, s1>>)>> ELSE <<>>
        push2 == IF Len(s2) > 0 THEN Append(push1, <<y, x, s2>>) ELSE push1
    IN  QuickHullLoop(push2, {x, y})

RECURSIVE GrahamPush(_, _)
\* The inner `loop` of GrahamScan::convex_hull for vertex v: pop until v is
\* strictly left of the top segment, then push v.
GrahamPush(stack, v) ==
    IF Len(stack) < 2 THEN Panic("assertion failed: stack.len() >= 2")
    ELSE LET v_top == stack[Len(stack)]
             v_prev == stack[Len(stack) - 1]
         IN  IF left(pts[v], Coords(<<v_prev, v_top>>))
             THEN Ok(Append(stack, v))
             ELSE GrahamPush(SubSeq(stack, 1, Len(stack) - 1), v)

RECURSIVE GrahamScanLoop(_, _, _)
\* The `for v in vertices.iter()` loop, before its k-th vertex.
GrahamScanLoop(stack, vs, k) ==
    IF k > Len(vs) THEN Hull(Range(stack))
    ELSE LET pushed == GrahamPush(stack, vs[k])
         IN  IF pushed.kind # "ok" THEN pushed
             ELSE GrahamScanLoop(pushed.seq, vs, k + 1)

\* GrahamScan::convex_hull that pushes the first sorted vertex and leaves it
\* in the list the for loop runs over.
GrahamScanFirstKept ==
    LET vs == min_angle_sorted_vertices
    IN  IF Len(vs) = 0 THEN Panic("removal index out of bounds")
        ELSE GrahamScanLoop(<<rightmost_lowest_vertex(vertex_ids), vs[1]>>, vs, 1)

GrahamScan_convex_hull ==
    LET vs == min_angle_sorted_vertices
    IN  IF Len(vs) = 0 THEN Panic("removal index out of bounds")
        ELSE GrahamScanLoop(<<rightmost_lowest_vertex(vertex_ids), vs[1]>>,
                            SubSeq(vs, 2, Len(vs)), 1)

----------------------------------------------------------------------------
(* DivideConquer (convex_hull.rs).  A piece of the hull, a Polygon made by *)
(* get_polygon(ids, false) or a LineSegment of two vertices, is the list   *)
(* of its vertex ids in the order of its boundary cycle.  The Geometry     *)
(* trait and the tangent tests of LineSegment are not part of the sources  *)
(* at hand and follow section 4.5 of the specification.                    *)

IndexOf(g, v) == CHOOSE i \in 1..Len(g) : g[i] = v

\* Geometry::get_next_vertex
get_next_vertex(g, v) == g[(IndexOf(g, v) % Len(g)) + 1]

\* Geometry::get_prev_vertex
get_prev_vertex(g, v) == g[((IndexOf(g, v) + Len(g) - 2) % Len(g)) + 1]

\* LineSegment::is_lower_tangent: both neighbors of vertex v in piece g are
\* left of, or on, the directed segment lt.
is_lower_tangent(lt, v, g) ==
    /\ left_on(pts[get_prev_vertex(g, v)], Coords(lt))
    /\ left_on(pts[get_next_vertex(g, v)], Coords(lt))

\* LineSegment::is_upper_tangent: both neighbors are right of, or on, ut.
is_upper_tangent(ut, v, g) ==
    /\ ~left(pts[get_prev_vertex(g, v)], Coords(ut))
    /\ ~left(pts[get_next_vertex(g, v)], Coords(ut))

RECURSIVE LowerMoveA(_, _, _, _)
\* The inner loop `while !lt.is_lower_tangent(&a.id, &left)`, with b fixed:
\* the vertex a it ends with, or 0 when no vertex of l passes the test and
\* the loop runs for ever.
LowerMoveA(l, a, b, fuel) ==
    IF is_lower_tangent(<<a, b>>, a, l) THEN a
    ELSE IF fuel = 0 THEN 0
    ELSE LowerMoveA(l, get_prev_vertex(l, a), b, fuel - 1)

RECURSIVE LowerMoveB(_, _, _, _)
\* The inner loop `while !lt.is_lower_tangent(&b.id, &right)`, with a fixed.
LowerMoveB(r, a, b, fuel) ==
    IF is_lower_tangent(<<a, b>>, b, r) THEN b
    ELSE IF fuel = 0 THEN 0
    ELSE LowerMoveB(r, a, get_next_vertex(r, b), fuel - 1)

RECURSIVE LowerTangentWalk(_, _, _, _, _)
\* The outer loop of lower_tangent_vertices from the pair (a, b): a moves
\* until it passes its test, then b moves until it passes its test, and
\* only then are both tested again.  The outer loop sees at most
\* Len(l) * Len(r) pairs before it repeats one and runs for ever.
LowerTangentWalk(l, r, a, b, fuel) ==
    IF is_lower_tangent(<<a, b>>, a, l) /\ is_lower_tangent(<<a, b>>, b, r)
    THEN Ok(<<a, b>>)
    ELSE IF fuel = 0 THEN Diverges
    ELSE LET a2 == LowerMoveA(l, a, b, Len(l))
             b2 == LowerMoveB(r, a2, b, Len(r))
         IN  IF a2 = 0 THEN Diverges
             ELSE IF b2 = 0 THEN Diverges
             ELSE LowerTangentWalk(l, r, a2, b2, fuel - 1)

lower_tangent_vertices(l, r) ==
    LowerTangentWalk(l, r, lowest_rightmost_vertex(l), lowest_leftmost_vertex(r),
                     Len(l) * Len(r))

RECURSIVE UpperMoveA(_, _, _, _)
\* The inner loop `while !ut.is_upper_tangent(&a.id, &left)`, with b fixed.
UpperMoveA(l, a, b, fuel) ==
    IF is_upper_tangent(<<a, b>>, a, l) THEN a
    ELSE IF fuel = 0 THEN 0
    ELSE UpperMoveA(l, get_next_vertex(l, a), b, fuel - 1)

RECURSIVE UpperMoveB(_, _, _, _)
\* The inner loop `while !ut.is_upper_tangent(&b.id, &right)`, with a fixed.
UpperMoveB(r, a, b, fuel) ==
    IF is_upper_tangent(<<a, b>>, b, r) THEN b
    ELSE IF fuel = 0 THEN 0
    ELSE UpperMoveB(r, a, get_prev_vertex(r, b), fuel - 1)

RECURSIVE UpperTangentWalk(_, _, _, _, _)
\* The outer loop of upper_tangent_vertices from the pair (a, b).
UpperTangentWalk(l, r, a, b, fuel) ==
    IF is_upper_tangent(<<a, b>>, a, l) /\ is_upper_tangent(<<a, b>>, b, r)
    THEN Ok(<<a, b>>)
    ELSE IF fuel = 0 THEN Diverges
    ELSE LET a2 == UpperMoveA(l, a, b, Len(l))
             b2 == UpperMoveB(r, a2, b, Len(r))
         IN  IF a2 = 0 THEN Diverges
             ELSE IF b2 = 0 THEN Diverges
             ELSE UpperTangentWalk(l, r, a2, b2, fuel - 1)

upper_tangent_vertices(l, r) ==
    UpperTangentWalk(l, r, highest_rightmost_vertex(l), highest_leftmost_vertex(r),
                     Len(l) * Len(r))

RECURSIVE ChainTo(_, _, _)
\* The vertices of piece g from v, along next, up to and including target.
ChainTo(g, v, target) ==
    IF v = target THEN <<target>>
    ELSE <<v>> \o ChainTo(g, get_next_vertex(g, v), target)

extract_boundary(a, b, lt_a, lt_b, ut_a, ut_b) ==
    ChainTo(b, lt_b, ut_b) \o ChainTo(a, ut_a, lt_a)

merge(left_ids, right_ids) ==
    LET num_left == Len(left_ids)
        num_right == Len(right_ids)
        lt == lower_tangent_vertices(left_ids, right_ids)
        ut == upper_tangent_vertices(left_ids, right_ids)
        merged_ids == extract_boundary(left_ids, right_ids,
                                       lt.seq[1], lt.seq[2], ut.seq[1], ut.seq[2])
    IN  IF ~(num_right >= 3) /\ num_left # 2
        THEN Panic("assertion failed: num_left == 2")
        ELSE IF ~(num_right >= 3) /\ num_right # 2
        THEN Panic("assertion failed: num_right == 2")
        ELSE IF num_right >= 3 /\ ~(num_left >= 3) /\ num_left # 2
        THEN Panic("assertion failed: num_left == 2")
        ELSE IF lt.kind # "ok" THEN lt
        ELSE IF ut.kind # "ok" THEN ut
        ELSE IF ~(Len(merged_ids) >= 3)
        THEN Panic("assertion failed: merged_ids.len() >= 3")
        ELSE Ok(merged_ids)

\* left_ids.sort(), right_ids.sort(): by vertex id.
SortIds(ids) == SortByKey(ids, [i \in 1..Len(ids) |-> <<ids[i]>>])

Pop(stack) == SubSeq(stack, 1, Len(stack) - 1)

\* The state of the two stacks of DivideConquer::convex_hull.
Stacks(split, merged, kind) == [split |-> split, merge |-> merged, kind |-> kind]

\* One iteration of `while merge_stack.len() > 1`.
MergeStep(st) ==
    LET right_ids == Last(st.merge)
        left_ids == Last(Pop(st.merge))
        merged_ids == merge(left_ids, right_ids)
    IN  IF merged_ids.kind # "ok"
        THEN Stacks(st.split, Pop(Pop(st.merge)), merged_ids.kind)
        ELSE Stacks(st.split, Append(Pop(Pop(st.merge)), merged_ids.seq), "ok")

RECURSIVE MergeLoop(_)
\* `while merge_stack.len() > 1`
MergeLoop(st) ==
    IF st.kind # "ok" \/ Len(st.merge) <= 1 THEN st
    ELSE MergeLoop(MergeStep(st))

\* The split that pushes the left half on split_stack before the right half,
\* so that the right half is popped first.
SplitPushLeftBelow(st) ==
    LET ids == Last(st.split)
        half == Len(ids) \div 2
        num_left == half
        num_right == Len(ids) - half
        left0 == SubSeq(ids, 1, half)
        right0 == SubSeq(ids, half + 1, Len(ids))
        left_ids == IF num_left = 3 THEN SortIds(left0) ELSE left0
        right_ids == IF num_right = 3 THEN SortIds(right0) ELSE right0
        split == Pop(st.split)
    IN  IF ~(Len(ids) >= 2) \/ (Len(ids) % 2 # 0 /\ ~(num_left < num_right))
        THEN Stacks(split, st.merge, "panic")
        ELSE IF num_left <= 3 /\ num_right <= 3
        THEN Stacks(split, st.merge \o <<left_ids, right_ids>>, "ok")
        ELSE IF num_left <= 3
        THEN Stacks(Append(split, right_ids), Append(st.merge, left_ids), "ok")
        ELSE Stacks(split \o <<left_ids, right_ids>>, st.merge, "ok")

\* One iteration of `while !split_stack.is_empty()` up to its inner loop:
\* the pop, the split, the sort of a piece of three, the assertions and
\* the pushes.
SplitPush(st) ==
    LET ids == Last(st.split)
        half == Len(ids) \div 2
        num_left == half
        num_right == Len(ids) - half
        left0 == SubSeq(ids, 1, half)
        right0 == SubSeq(ids, half + 1, Len(ids))
        left_ids == IF num_left = 3 THEN SortIds(left0) ELSE left0
        right_ids == IF num_right = 3 THEN SortIds(right0) ELSE right0
        split == Pop(st.split)
    IN  IF ~(Len(ids) >= 2) \/ (Len(ids) % 2 # 0 /\ ~(num_left < num_right))
        THEN Stacks(split, st.merge, "panic")
        ELSE IF num_left <= 3 /\ num_right <= 3
        THEN Stacks(split, st.merge \o <<left_ids, right_ids>>, "ok")
        ELSE IF num_left <= 3
        THEN Stacks(Append(split, right_ids), Append(st.merge, left_ids), "ok")
        ELSE Stacks(split \o <<right_ids, left_ids>>, st.merge, "ok")

\* One iteration of `while !split_stack.is_empty()`.
SplitStep(st) == MergeLoop(SplitPush(st))

RECURSIVE SplitLoop(_)
SplitLoop(st) ==
    IF st.kind # "ok" \/ Len(st.split) = 0 THEN st
    ELSE SplitLoop(SplitStep(st))

\* The vertex list sorted by increasing x, then decreasing y.
SortedByX ==
    SortByKey(vertex_ids,
              [i \in 1..Len(vertex_ids) |->
                  <<X(pts[vertex_ids[i]]), -Y(pts[vertex_ids[i]])>>])

RECURSIVE clean_collinear(_)
\* Polygon::clean_collinear: vertices collinear with their two neighbors on
\* the boundary cycle g are dropped, one at a time.
clean_collinear(g) ==
    LET flat == {i \in 1..Len(g) :
                    has_collinear_points(pts[get_prev_vertex(g, g[i])], pts[g[i]],
                                         pts[get_next_vertex(g, g[i])])}
    IN  IF flat = {} \/ Len(g) <= 2 THEN g
        ELSE LET i == CHOOSE k \in flat : \A j \in flat : k <= j
             IN  clean_collinear(SubSeq(g, 1, i - 1) \o SubSeq(g, i + 1, Len(g)))

\* The assertions after the loops and the polygon returned.
DivideConquerReturn(st) ==
    IF st.kind = "diverges" THEN Diverges
    ELSE IF st.kind = "panic" THEN Panic("assertion failed")
    ELSE IF Len(st.merge) # 1
    THEN Panic("assertion failed: merge_stack.len() == 1")
    ELSE IF ~(Len(st.merge[1]) >= 3)
    THEN Panic("assertion failed: hull_ids.len() >= 3")
    ELSE Hull(Range(clean_collinear(SortIds(st.merge[1]))))

DivideConquer_convex_hull ==
    IF Len(pts) = 3 THEN Hull(Range(vertex_ids))
    ELSE DivideConquerReturn(SplitLoop(Stacks(<<SortedByX>>, <<>>, "ok")))

----------------------------------------------------------------------------
(* The driver runs the six hull computers of test_convex_hull one after    *)
(* the other on the constructed polygon, the brute-force baseline first.   *)

Computers == <<"InteriorPoints", "QuickHull", "ExtremeEdges", "GiftWrapping",
               "GrahamScan", "DivideConquer">>

\* computer.convex_hull(&polygon) for the computer of the given name, run
\* once the computers listed before it have run, on a fresh polygon or on
\* one that has just been triangulated.
RunHull(name, hull) ==
    /\ pc = "built"
    /\ \/ tpc = "idle" /\ out.op = "none"
       \/ tpc = "returned"
    /\ Len(pts) >= 3
    /\ Len(hulls) < Len(Computers)
    /\ Computers[Len(hulls) + 1] = name
    /\ hulls' = Append(hulls, hull)
    /\ UNCHANGED <<pts, pc, polygon, out, t_neighbors, t_anchor, v2,
                   triangulation, tpc, clipped, dcvars>>

RunDivideConquer == RunHull("DivideConquer", DivideConquer_convex_hull)

RunExtremeEdges == RunHull("ExtremeEdges", ExtremeEdges_convex_hull)

RunGiftWrapping == RunHull("GiftWrapping", GiftWrapping_convex_hull)

RunGrahamScan == RunHull("GrahamScan", GrahamScan_convex_hull)

RunInteriorPoints == RunHull("InteriorPoints", InteriorPoints_convex_hull)

RunQuickHull == RunHull("QuickHull", QuickHull_convex_hull)

NextHull ==
    \/ New
    \/ RunInteriorPoints
    \/ RunQuickHull
    \/ RunExtremeEdges
    \/ RunGiftWrapping
    \/ RunGrahamScan
    \/ RunDivideConquer

----------------------------------------------------------------------------
(* DivideConquer::convex_hull, one action per step of its loops.           *)

DCFrame == UNCHANGED <<pts, pc, polygon, t_neighbors, t_anchor, v2,
                       triangulation, tpc, clipped, hulls>>

\* The ranges behind the pieces after the pushes of one split: the popped
\* range is cut where split_at cuts the popped piece, and its halves go
\* where the halves of the piece went.
SplitRanges(st) ==
    LET r == Last(ranges.split)
        half == (r[2] - r[1] + 1) \div 2
        left_range == <<r[1], r[1] + half - 1>>
        right_range == <<r[1] + half, r[2]>>
        rest == Pop(ranges.split)
    IN  IF st.kind # "ok" THEN ranges
        ELSE IF Len(st.merge) = Len(merge_stack) + 2
        THEN [ranges EXCEPT !.split = rest, !.merge = @ \o <<left_range, right_range>>]
        ELSE IF Len(st.merge) = Len(merge_stack) + 1
        THEN [ranges EXCEPT !.split = Append(rest, right_range),
                            !.merge = Append(@, left_range)]
        ELSE [ranges EXCEPT !.split = rest \o <<right_range, left_range>>]

\* The ranges behind the pieces after one merge: the merged piece stands
\* for the ranges of its two arguments.
MergeRanges(st) ==
    LET right_range == Last(ranges.merge)
        left_range == Last(Pop(ranges.merge))
    IN  [ranges EXCEPT !.call = <<left_range, right_range>>,
                       !.merge = IF st.kind # "ok" THEN Pop(Pop(@))
                                 ELSE Append(Pop(Pop(@)),
                                             <<left_range[1], right_range[2]>>)]

\* The early return for a triangle, or the sort and the first push.
DCStart ==
    /\ pc = "built"
    /\ tpc = "idle"
    /\ out.op = "none"
    /\ hulls = <<>>
    /\ dpc = "idle"
    /\ Len(pts) >= 3
    /\ IF Len(pts) = 3
       THEN /\ dpc' = "returned"
            /\ out' = [op |-> "convex_hull", val |-> Hull(Range(vertex_ids))]
            /\ UNCHANGED <<split_stack, ranges>>
       ELSE /\ dpc' = "split"
            /\ split_stack' = <<SortedByX>>
            /\ ranges' = [ranges EXCEPT !.split = <<(<<1, Len(pts)>>)>>]
            /\ out' = out
    /\ UNCHANGED <<merge_stack, merge_call>>
    /\ DCFrame

\* The body of `while !split_stack.is_empty()` up to the inner loop.
DCSplit ==
    /\ dpc = "split"
    /\ split_stack # <<>>
    /\ LET st == SplitPush(Stacks(split_stack, merge_stack, "ok"))
       IN  /\ split_stack' = st.split
           /\ merge_stack' = st.merge
           /\ dpc' = IF st.kind # "ok" THEN st.kind
                     ELSE IF Len(st.merge) > 1 THEN "merge" ELSE "split"
           /\ ranges' = SplitRanges(st)
    /\ UNCHANGED <<out, merge_call>>
    /\ DCFrame

\* One iteration of `while merge_stack.len() > 1`.
DCMerge ==
    /\ dpc = "merge"
    /\ LET st == MergeStep(Stacks(split_stack, merge_stack, "ok"))
       IN  /\ merge_call' = <<Last(Pop(merge_stack)), Last(merge_stack)>>
           /\ ranges' = MergeRanges(st)
           /\ merge_stack' = st.merge
           /\ dpc' = IF st.kind # "ok" THEN st.kind
                     ELSE IF Len(st.merge) > 1 THEN "merge" ELSE "split"
    /\ UNCHANGED <<out, split_stack>>
    /\ DCFrame

\* The end of the outer loop, the last assertions and the return.
DCReturn ==
    /\ dpc = "split"
    /\ split_stack = <<>>
    /\ LET hull == DivideConquerReturn(Stacks(split_stack, merge_stack, "ok"))
       IN  /\ out' = [op |-> "convex_hull", val |-> hull]
           /\ dpc' = IF hull.kind = "hull" THEN "returned" ELSE hull.kind
    /\ UNCHANGED <<split_stack, merge_stack, merge_call, ranges>>
    /\ DCFrame

NextDivideConquer ==
    \/ New
    \/ DCStart
    \/ DCSplit
    \/ DCMerge
    \/ DCReturn

InitHull ==
    /\ pts \in Polygons
    /\ pc = "input"
    /\ polygon = NoPolygon
    /\ Idle

SpecHull == InitHull /\ [][NextHull]_vars

\* The fixtures, from every starting vertex.
FixtureRotations ==
    UNION {{Rotate(f, k) : k \in 0..(Len(f) - 1)} : f \in Fixtures}

\* A counter-clockwise simple polygon whose four rightmost vertices lie on
\* one horizontal line: DivideConquer splits them off as one piece of four
\* and merges its two halves.
collinear_row ==
    <<(<<1, 0>>), (<<2, 0>>), (<<3, 0>>), (<<4, 0>>), (<<1, 1>>), (<<0, 2>>),
      (<<0, 0>>)>>

\* A clockwise simple polygon on which the upper tangent walk moves b twice
\* while a, left untested in between, no longer passes its test.
untested_walk ==
    <<(<<4, 2>>), (<<6, 0>>), (<<3, 0>>), (<<0, 6>>), (<<3, 1>>), (<<2, 3>>)>>

InitDivideConquer ==
    /\ pts \in Polygons \cup FixtureRotations \cup {collinear_row, untested_walk}
    /\ pc = "input"
    /\ polygon = NoPolygon
    /\ Idle

\* DivideConquer alone, step by step.
SpecDivideConquer == InitDivideConquer /\ [][NextDivideConquer]_vars

----------------------------------------------------------------------------
(* The predicates on points, applied to three points of the lattice or    *)
(* three points with large integer coordinates, two or all three of which  *)
(* may be the same point, and to the three points after one of them has    *)
(* been rotated.                                                           *)

\* The largest coordinate for which every difference (at most 2^26) and
\* every product (at most 2^52) of Triangle::area, and the difference of the
\* two products (at most 2^53), is an f64.
ExactRange == 2^25

\* Points with integer coordinates as large as ExactRange, and larger.
LargePoints ==
    {PointOfF64(OfInt(xy[1]), OfInt(xy[2])) :
        xy \in {<<-ExactRange, -ExactRange>>,
                <<ExactRange, ExactRange - 1>>,
                <<ExactRange - 1, ExactRange>>,
                <<4 * ExactRange + 1, 4 * ExactRange>>,
                <<4 * ExactRange, 4 * ExactRange - 1>>}}

InitPredicates ==
    /\ pts \in [1..3 -> Grid] \cup [1..3 -> LargePoints \cup {<<0, 0>>}]
    /\ pc = "points"
    /\ polygon = NoPolygon
    /\ Idle

\* What a rotation of a point leaves as it is.
RotateFrame == UNCHANGED <<polygon, out, t_neighbors, t_anchor, v2,
                           triangulation, tpc, clipped, hulls, dcvars>>

\* pts[i].rotate_about_origin(radians), once in a run
RotateAboutOrigin ==
    /\ pc = "points"
    /\ out.op = "none"
    /\ \E i \in 1..3 : \E radians \in Radians :
          pts' = [pts EXCEPT ![i] = rotate_about_origin(pts[i], radians)]
    /\ pc' = "rotated"
    /\ RotateFrame

\* pts[i].rotate_about_point(radians, &pts[j]), once in a run
RotateAboutPoint ==
    /\ pc = "points"
    /\ out.op = "none"
    /\ \E i \in 1..3 : \E j \in (1..3) \ {i} : \E radians \in Radians :
          pts' = [pts EXCEPT ![i] = rotate_about_point(pts[i], radians, pts[j])]
    /\ pc' = "rotated"
    /\ RotateFrame

\* Triangle::new(a, b, c).area(), doubled.
Area ==
    /\ pc \in {"points", "rotated"}
    /\ out.op = "none"
    /\ out' = [op |-> "area",
               val |-> TriangleDoubleAreaF64(pts[1], pts[2], pts[3])]
    /\ QueryFrame

\* pts[1].between(&pts[2], &pts[3])
Between ==
    /\ pc \in {"points", "rotated"}
    /\ out.op = "none"
    /\ out' = [op |-> "between", val |-> PointsBetween(pts[1], pts[2], pts[3])]
    /\ QueryFrame

NextPredicates ==
    \/ RotateAboutOrigin
    \/ RotateAboutPoint
    \/ Area
    \/ Between

SpecPredicates == InitPredicates /\ [][NextPredicates]_vars

----------------------------------------------------------------------------
(* The specifications.                                                     *)

NextPolygon ==
    \/ New
    \/ Vertices
    \/ Edges
    \/ DoubleArea

\* Construction and the queries.
SpecPolygon == Init /\ [][NextPolygon]_vars

NextTriangulation ==
    \/ New
    \/ TriStart
    \/ TriWhile
    \/ TriLoop

\* Construction and triangulation.
SpecTriangulation == Init /\ [][NextTriangulation]_vars

NextVisibility ==
    \/ New
    \/ InCone
    \/ Diagonal

\* Construction and the visibility tests between two vertices.
SpecVisibility == Init /\ [][NextVisibility]_vars

Next ==
    \/ New
    \/ Vertices
    \/ Edges
    \/ DoubleArea
    \/ TriStart
    \/ TriWhile
    \/ TriLoop
    \/ RunInteriorPoints
    \/ RunQuickHull
    \/ RunExtremeEdges
    \/ RunGiftWrapping
    \/ RunGrahamScan
    \/ RunDivideConquer

\* Everything the driver can do with a vertex list.
Spec == Init /\ [][Next]_vars

----------------------------------------------------------------------------
(* Properties of the hull computers (SpecHull).                            *)

\* C1: on every simple polygon the six hull computers return hulls whose
\* sets of vertex ids are identical: any two of the computers that have run
\* on the polygon returned a hull, and the same ids.
HullComputersAgree ==
    \A i, j \in 1..Len(hulls) :
        /\ hulls[i].kind = "hull"
        /\ hulls[i].ids = hulls[j].ids

\* p is in the closed triangle abc, whose corners are not collinear.
InClosedTriangle(p, a, b, c) ==
    /\ Orient(a, b, c) # 0
    /\ \/ Orient(a, b, p) >= 0 /\ Orient(b, c, p) >= 0 /\ Orient(c, a, p) >= 0
       \/ Orient(a, b, p) <= 0 /\ Orient(b, c, p) <= 0 /\ Orient(c, a, p) <= 0

\* The corners of the convex hull of the vertices: the vertices that lie
\* neither in a triangle of three other vertices nor on a segment between two
\* other vertices.
ExtremePoints ==
    {i \in 1..Len(pts) :
        LET others == (1..Len(pts)) \ {i}
        IN  /\ \A a, b \in others :
                  a # b => ~OnSegment(pts[i], pts[a], pts[b])
            /\ \A a, b, c \in others :
                  ~InClosedTriangle(pts[i], pts[a], pts[b], pts[c])}

\* C2: for every hull computer and every simple polygon, the ids of
\* convex_hull(polygon) are exactly the extreme points of the vertex set:
\* every corner of the hull is returned, and no vertex inside the hull or on
\* a hull edge between two other vertices is.
HullIsExtremePoints ==
    \A k \in 1..Len(hulls) :
        /\ hulls[k].kind = "hull"
        /\ hulls[k].ids = ExtremePoints

----------------------------------------------------------------------------
(* Properties of triangulation (SpecTriangulation).                        *)

\* C3: for every simple polygon with n >= 3 vertices triangulation() returns
\* exactly n - 3 chords (0 for a triangle, 1 for the 4x4 square, 15 for the
\* 18-vertex polygon): no pass over the working cycle ends without an ear
\* clipped (the passes after such a pass repeat it, and triangulation() does
\* not return), and the list returned has n - 3 chords.
TriangulationReturnsChords ==
    (pc = "built" /\ IsSimple(pts)) =>
        /\ ~(tpc = "while" /\ clipped = 0)
        /\ tpc = "returned" =>
              /\ out.val = triangulation
              /\ Len(out.val) = Len(pts) - 3
              /\ pts = right_triangle => Len(out.val) = 0
              /\ pts = square_4x4 => Len(out.val) = 1
              /\ pts = polygon_2 => Len(out.val) = 15

\* The chords c and d, segments between vertices, have a point in common
\* other than one end point they share.
ChordsCross(c, d) ==
    LET shared == {c[1], c[2]} \cap {d[1], d[2]}
    IN  IF Cardinality(shared) = 2 THEN TRUE
        ELSE IF Cardinality(shared) = 1
        THEN LET s == CHOOSE x \in shared : TRUE
                 o1 == CHOOSE x \in {c[1], c[2]} : x # s
                 o2 == CHOOSE x \in {d[1], d[2]} : x # s
             IN  \/ OnSegment(pts[o1], pts[s], pts[o2])
                 \/ OnSegment(pts[o2], pts[s], pts[o1])
        ELSE SegmentsMeet(pts[c[1]], pts[c[2]], pts[d[1]], pts[d[2]])

\* C4: for every simple polygon no two chords of triangulation() cross: any
\* two of the chords pushed so far are disjoint or meet only in an end point
\* they share, although every ear test is made against the original polygon.
NoChordsCross ==
    (pc = "built" /\ IsSimple(pts)) =>
        \A i, j \in 1..Len(triangulation) :
            i < j => ~ChordsCross(triangulation[i], triangulation[j])

\* triangulation() has returned chords two of which share no end point, and
\* ears were tested against a polygon that differs from the working cycle.
NoChordsCrossWitness ==
    /\ tpc = "returned"
    /\ t_neighbors # polygon.neighbors
    /\ \E i, j \in 1..Len(triangulation) :
          {triangulation[i][1], triangulation[i][2]}
              \cap {triangulation[j][1], triangulation[j][2]} = {}

\* C5: when a full pass over the working cycle, with more than 3 vertices
\* left, has found no ear, triangulation() reports an error to the caller:
\* it does not go into another pass.
NoEarPassIsReported ==
    [][(tpc = "while" /\ clipped = 0 /\ Cardinality(DOMAIN t_neighbors) > 3)
           => tpc' # "loop"]_vars

----------------------------------------------------------------------------
(* Properties of the whole driver (Spec).                                  *)

\* C6: triangulation() and every convex_hull() leave their input polygon
\* unchanged: no step taken once the polygon is built changes its anchor or
\* the neighbors of any of its vertices.
PolygonUnchanged ==
    [][pc = "built" =>
           /\ polygon'.anchor = polygon.anchor
           /\ polygon'.neighbors = polygon.neighbors]_vars

\* A polygon has been triangulated, which shrank the working copy, and all
\* six hull computers have then run on it.
PolygonUnchangedWitness ==
    /\ tpc = "returned"
    /\ Len(triangulation) >= 2
    /\ t_neighbors # polygon.neighbors
    /\ Len(hulls) = Len(Computers)

----------------------------------------------------------------------------
(* Properties of construction and the queries (SpecPolygon).               *)

\* C7: a polygon built by Polygon::new from a list of n >= 3 distinct
\* vertices has neighbors(v_i) = (v_(i-1 mod n), v_(i+1 mod n)) for every i;
\* next(prev(v)) = v and prev(next(v)) = v for every vertex, the neighbor map
\* has exactly n entries, and the walk along next from the anchor is one
\* cycle through all n vertices.
NeighborsAreCyclic ==
    (pc = "built" /\ Len(pts) >= 3) =>
        LET n == Len(pts)
            prev(v) == neighbors(polygon, v)[1]
            next(v) == neighbors(polygon, v)[2]
        IN  /\ DOMAIN polygon.neighbors = 1..n
            /\ Cardinality(DOMAIN polygon.neighbors) = n
            /\ \A i \in 1..n :
                  neighbors(polygon, i) = <<((i + n - 2) % n) + 1, (i % n) + 1>>
            /\ \A v \in 1..n : next(prev(v)) = v /\ prev(next(v)) = v
            /\ Len(vertices(polygon)) = n
            /\ Range(vertices(polygon)) = 1..n

\* A polygon of more than three vertices has been built.
NeighborsAreCyclicWitness ==
    /\ pc = "built"
    /\ Len(pts) > 3
    /\ Cardinality(DOMAIN polygon.neighbors) = Len(pts)

\* C8: construction from fewer than 3 vertices (0, 1 or 2) fails fatally: no
\* Polygon value is produced for such a list.
ShortListsAreRefused == Len(pts) < 3 => pc # "built"

\* C9: double_area() is twice the signed (shoelace) area of the boundary
\* cycle whichever vertex of the cycle is the anchor; it is positive for a
\* counter-clockwise polygon, it is negated when the vertex order is
\* reversed, and it is 12 for the right triangle (0,0), (3,0), (0,4).
DoubleAreaIsShoelace ==
    (out.op = "double_area" /\ Len(pts) >= 3) =>
        /\ out.val = Shoelace(pts)
        /\ \A k \in 0..(Len(pts) - 1) :
              double_area(PolygonNew(Rotate(Ids(pts), k))) = out.val
        /\ IsCCW(pts) => out.val > 0
        /\ double_area(PolygonNew(Reverse(Ids(pts)))) = -out.val
        /\ pts = right_triangle => out.val = 12

\* double_area() has answered for a counter-clockwise polygon of more than
\* three vertices.
DoubleAreaIsShoelaceWitness ==
    /\ out.op = "double_area"
    /\ Len(pts) > 3
    /\ IsCCW(pts)
    /\ out.val > 0

----------------------------------------------------------------------------
(* Properties of the predicates (SpecPredicates).                          *)

\* Twice the signed area of abc as a real number, with no rounding.
ExactDoubleArea(a, b, c) ==
    ExactSub(ExactMul(ExactSub(F64X(b), F64X(a)), ExactSub(F64Y(c), F64Y(a))),
             ExactMul(ExactSub(F64X(c), F64X(a)), ExactSub(F64Y(b), F64Y(a))))

\* a, b and c lie on one line.  For points of the lattice: on a line
\* A x + B y = C, whose coefficients are differences of coordinates.
Collinear(a, b, c) ==
    IF OnLattice3(a, b, c)
    THEN \E A, B \in (-NumPoints)..NumPoints :
            /\ A # 0 \/ B # 0
            /\ A * X(a) + B * Y(a) = A * X(b) + B * Y(b)
            /\ A * X(a) + B * Y(a) = A * X(c) + B * Y(c)
    ELSE ExactDoubleArea(a, b, c).s = 0

SamePoint(a, b) == Len(a) = Len(b) /\ a = b

\* What C10 says of the area that has been taken of the points a, b, c.
AreaIsAntisymmetric(a, b, c) ==
    /\ out.val = Neg(TriangleDoubleAreaF64(c, b, a))
    /\ AreaSign(b, c, a) = out.val.s
    /\ AreaSign(c, a, b) = out.val.s
    /\ (out.val.s = 0) <=> Collinear(a, b, c)
    /\ (SamePoint(a, b) \/ SamePoint(b, c) \/ SamePoint(a, c)) => out.val.s = 0

\* C10, as stated: the signed triangle area satisfies orientation(a, b, c) =
\* -orientation(c, b, a) for all triples, keeps its sign under cyclic
\* rotation of (a, b, c), and is zero exactly when a, b and c are collinear,
\* as every triple with two equal points is.
OrientationIsAntisymmetric ==
    out.op = "area" => AreaIsAntisymmetric(pts[1], pts[2], pts[3])

\* The magnitude of x.
Abs(x) == IF x.s < 0 THEN Neg(x) ELSE x

\* Both coordinates of p are integers of magnitude at most ExactRange.
InExactRange(p) ==
    /\ IsInteger(F64X(p)) /\ Compare(Abs(F64X(p)), OfInt(ExactRange)) <= 0
    /\ IsInteger(F64Y(p)) /\ Compare(Abs(F64Y(p)), OfInt(ExactRange)) <= 0

\* C10, amended: the signed triangle area satisfies orientation(a, b, c) =
\* -orientation(c, b, a), keeps its sign under cyclic rotation of (a, b, c),
\* and is zero exactly when a, b and c are collinear, as every triple with
\* two equal points is, for all triples of points whose coordinates are
\* integers of magnitude at most 2^25.
OrientationIsAntisymmetricInExactRange ==
    out.op = "area" =>
        LET a == pts[1]
            b == pts[2]
            c == pts[3]
        IN  (InExactRange(a) /\ InExactRange(b) /\ InExactRange(c))
                => AreaIsAntisymmetric(a, b, c)

\* The area of a clockwise triple of three different points has been taken,
\* whose coordinates are integers of magnitude ExactRange or one less.
OrientationIsAntisymmetricInExactRangeWitness ==
    /\ out.op = "area"
    /\ \A i \in 1..3 : pts[i] \in LargePoints /\ InExactRange(pts[i])
    /\ pts[1] # pts[2] /\ pts[2] # pts[3] /\ pts[1] # pts[3]
    /\ out.val.s < 0
    /\ AreaSign(pts[3], pts[2], pts[1]) > 0

----------------------------------------------------------------------------
(* C11: for every simple polygon and every pair of non-adjacent vertices a *)
(* and b, diagonal(a->b) and diagonal(b->a) give the same answer.          *)

NonAdjacent(a, b) ==
    /\ a # b
    /\ b \notin Range(neighbors(polygon, a))

DiagonalIsSymmetric ==
    (out.op = "diagonal" /\ NonAdjacent(out.a, out.b))
        => out.val = diagonal(polygon, <<out.b, out.a>>)

\* Both answers occur: a pair that is a diagonal, in a polygon that has a
\* pair that is none.
DiagonalIsSymmetricWitness ==
    /\ out.op = "diagonal"
    /\ NonAdjacent(out.a, out.b)
    /\ out.val
    /\ \E a \in DOMAIN polygon.neighbors :
       \E b \in DOMAIN polygon.neighbors :
          NonAdjacent(a, b) /\ ~diagonal(polygon, <<a, b>>)

----------------------------------------------------------------------------
(* C12: p.between(a, b) is true exactly when p is collinear with a and b   *)
(* and p's coordinate on the tested axis (y when a-b is vertical, x        *)
(* otherwise) lies in the closed interval spanned by a and b, both end     *)
(* points included and in either order of a and b; (1,1) is between (0,0)  *)
(* and (2,2), and (0,0) is not between (1,1) and (2,2).                    *)

Min(x, y) == IF x <= y THEN x ELSE y

Max(x, y) == IF x >= y THEN x ELSE y

\* The coordinate of p on the tested axis is in the closed interval of the
\* coordinates of a and b.
InClosedInterval(p, a, b) ==
    IF OnLattice3(p, a, b)
    THEN IF X(a) = X(b)
         THEN Min(Y(a), Y(b)) <= Y(p) /\ Y(p) <= Max(Y(a), Y(b))
         ELSE Min(X(a), X(b)) <= X(p) /\ X(p) <= Max(X(a), X(b))
    ELSE LET vertical == Compare(F64X(a), F64X(b)) = 0
             e1 == IF vertical THEN F64Y(a) ELSE F64X(a)
             e2 == IF vertical THEN F64Y(b) ELSE F64X(b)
             check == IF vertical THEN F64Y(p) ELSE F64X(p)
         IN  \/ Compare(e1, check) <= 0 /\ Compare(check, e2) <= 0
             \/ Compare(e2, check) <= 0 /\ Compare(check, e1) <= 0

BetweenIsClosedInterval ==
    out.op = "between" =>
        LET p == pts[1]
            a == pts[2]
            b == pts[3]
        IN  /\ out.val <=> (Collinear(a, b, p) /\ InClosedInterval(p, a, b))
            /\ out.val = PointsBetween(p, b, a)
            /\ (SamePoint(p, <<1, 1>>) /\ SamePoint(a, <<0, 0>>)
                    /\ SamePoint(b, <<2, 2>>)) => out.val
            /\ (SamePoint(p, <<0, 0>>) /\ SamePoint(a, <<1, 1>>)
                    /\ SamePoint(b, <<2, 2>>)) => ~out.val

----------------------------------------------------------------------------
(* C13: for a polygon built from the list v_0 ... v_{n-1}, every call of   *)
(* vertices(), the first as well as a repeated one, returns v_0 ... v_{n-1}*)
(* in that order, starting at the anchor, and every call of edges()        *)
(* returns exactly n segments, the i-th being (v_i, v_{(i+1) mod n}), so   *)
(* the last one ends at the anchor.                                        *)

BoundaryInInputOrder ==
    LET n == Len(pts)
    IN  /\ (out.op = "vertices" /\ "val" \in DOMAIN out) =>
              /\ out.val = [i \in 1..n |-> i]
              /\ out.val[1] = polygon.anchor
        /\ (out.op = "edges" /\ "val" \in DOMAIN out) =>
              /\ Len(out.val) = n
              /\ \A i \in 1..n : out.val[i] = <<i, (i % n) + 1>>
              /\ Last(out.val)[2] = polygon.anchor

\* edges() has answered for a polygon of more than three vertices.
BoundaryInInputOrderWitness ==
    /\ out.op = "edges"
    /\ "val" \in DOMAIN out
    /\ Len(pts) > 3
    /\ Len(out.val) = Len(pts)

----------------------------------------------------------------------------
(* C14: for every hull computer and every counter-clockwise simple input,  *)
(* the boundary cycle of the returned hull polygon visits the hull         *)
(* vertices in counter-clockwise order: every three consecutive vertices   *)
(* of the cycle make a strict left turn.                                   *)

StrictlyConvexCycle(g) ==
    \A i \in 1..Len(g) :
        left(pts[g[((i + 1) % Len(g)) + 1]],
             <<pts[g[i]], pts[g[(i % Len(g)) + 1]]>>)

HullIsCounterClockwise ==
    (IsSimple(pts) /\ IsCCW(pts)) =>
        \A k \in 1..Len(hulls) :
            hulls[k].kind = "hull" => StrictlyConvexCycle(HullCycle(hulls[k]))

----------------------------------------------------------------------------
(* C15: in_cone(a->b), with a0 and a1 the predecessor and the successor of *)
(* a.  When a is convex (a0 is left-on of a->a1) it is true iff b is       *)
(* strictly left of a->a1 and strictly left of a0->a.  When a is reflex it *)
(* is the negation of "b is left-on of both adjacent directions".          *)

\* The vertex a of the answered in_cone query is convex.
ConvexAt(a) ==
    left_on(pts[neighbors(polygon, a)[1]],
            <<pts[a], pts[neighbors(polygon, a)[2]]>>)

\* b is strictly left of a->a1 and of a0->a.
StrictlyLeftOfBoth(a, b) ==
    LET a0 == neighbors(polygon, a)[1]
        a1 == neighbors(polygon, a)[2]
    IN  /\ left(pts[b], <<pts[a], pts[a1]>>)
        /\ left(pts[b], <<pts[a0], pts[a]>>)

\* b is left-on of the directions a->a1 and a0->a, the ones of the convex
\* case.
LeftOnOfBothForward(a, b) ==
    LET a0 == neighbors(polygon, a)[1]
        a1 == neighbors(polygon, a)[2]
    IN  /\ left_on(pts[b], <<pts[a], pts[a1]>>)
        /\ left_on(pts[b], <<pts[a0], pts[a]>>)

\* b is left-on of the reversed directions a1->a and a->a0, that is, right
\* of or on a->a1 and a0->a.
LeftOnOfBothReversed(a, b) ==
    LET a0 == neighbors(polygon, a)[1]
        a1 == neighbors(polygon, a)[2]
    IN  /\ left_on(pts[b], <<pts[a1], pts[a]>>)
        /\ left_on(pts[b], <<pts[a], pts[a0]>>)

\* C15 as stated, the adjacent directions of the reflex case being those
\* the convex case names, a->a1 and a0->a.
InConeForwardDirections ==
    out.op = "in_cone" =>
        out.val = IF ConvexAt(out.a)
                  THEN StrictlyLeftOfBoth(out.a, out.b)
                  ELSE ~LeftOnOfBothForward(out.a, out.b)

\* C15 with the directions of the reflex case made explicit: for reflex a,
\* in_cone(a->b) is the negation of "b is left-on of a1->a and of a->a0";
\* the convex case is as stated.
InConeReversedDirections ==
    out.op = "in_cone" =>
        out.val = IF ConvexAt(out.a)
                  THEN StrictlyLeftOfBoth(out.a, out.b)
                  ELSE ~LeftOnOfBothReversed(out.a, out.b)

\* in_cone has answered true at a reflex vertex a for a vertex b that is
\* left-on of both a->a1 and a0->a.
InConeReversedDirectionsWitness ==
    /\ out.op = "in_cone"
    /\ ~ConvexAt(out.a)
    /\ LeftOnOfBothForward(out.a, out.b)
    /\ out.val

----------------------------------------------------------------------------
(* C16: in triangulation(), after every step of the inner loop the working *)
(* neighbor map is a single cycle with next(prev(v)) = v for every vertex  *)
(* that remains.  Clipping the ear v2 with working neighbors (v1, v3)      *)
(* removes exactly v2, sets next(v1) = v3 and prev(v3) = v1, keeps         *)
(* prev(v1), next(v3) and every other entry, and appends the one chord     *)
(* (v1, v3); a step at a vertex that is no ear leaves the map as it was.   *)

RECURSIVE NextTimes(_, _, _)
\* The vertex reached from v by k steps along `next`.
NextTimes(m, v, k) == IF k = 0 THEN v ELSE NextTimes(m, m[v][2], k - 1)

SingleCycle(m) ==
    /\ \A v \in DOMAIN m :
          /\ m[v][1] \in DOMAIN m
          /\ m[v][2] \in DOMAIN m
          /\ m[m[v][1]][2] = v
          /\ m[m[v][2]][1] = v
    /\ \A v \in DOMAIN m :
          {NextTimes(m, v, k) : k \in 0..(Cardinality(DOMAIN m) - 1)} = DOMAIN m

EarIsSplicedOut ==
    [][(tpc = "loop" /\ v2 \in DOMAIN t_neighbors) =>
          LET v1 == t_neighbors[v2][1]
              v3 == t_neighbors[v2][2]
          IN  /\ SingleCycle(t_neighbors')
              /\ IF diagonal(polygon, <<v1, v3>>)
                 THEN /\ DOMAIN t_neighbors' = DOMAIN t_neighbors \ {v2}
                      /\ t_neighbors'[v1][2] = v3
                      /\ t_neighbors'[v3][1] = v1
                      /\ t_neighbors'[v1][1] = t_neighbors[v1][1]
                      /\ t_neighbors'[v3][2] = t_neighbors[v3][2]
                      /\ \A w \in DOMAIN t_neighbors' \ {v1, v3} :
                            t_neighbors'[w] = t_neighbors[w]
                      /\ triangulation' = Append(triangulation, <<v1, v3>>)
                 ELSE /\ t_neighbors' = t_neighbors
                      /\ triangulation' = triangulation]_vars

\* A second ear has just been clipped.  Its pass began at the end v3 of the
\* first chord, whose working predecessor is the start v1 of that chord;
\* the second chord starts elsewhere, so the pass first stepped over a
\* vertex that is no ear.
EarIsSplicedOutWitness ==
    /\ tpc = "while"
    /\ clipped = 1
    /\ Len(triangulation) = 2
    /\ triangulation[2][1] # triangulation[1][1]
    /\ Cardinality(DOMAIN t_neighbors) = Len(pts) - 2

----------------------------------------------------------------------------
(* C17: for every simple polygon with n >= 3 vertices triangulation()      *)
(* terminates, and when it does exactly 3 vertices remain in the working   *)
(* map; the working map never holds fewer than 3 vertices, because each    *)
(* pass over the cycle ends as soon as one ear has been clipped.  A pass   *)
(* that ends with no ear clipped leaves the working map as it found it, so *)
(* the passes after it repeat it and triangulation() does not terminate.   *)

TriangulationEndsWithThree ==
    (pc = "built" /\ IsSimple(pts) /\ tpc # "idle") =>
        /\ ~(tpc = "while" /\ clipped = 0)
        /\ clipped <= 1
        /\ Cardinality(DOMAIN t_neighbors) >= 3
        /\ tpc = "returned" => Cardinality(DOMAIN t_neighbors) = 3

----------------------------------------------------------------------------
(* C18: in DivideConquer every call merge(left_ids, right_ids) receives    *)
(* two pieces that cover adjacent contiguous ranges of the list sorted by  *)
(* x ascending, y descending, all of left_ids before all of right_ids; at  *)
(* every step the pieces on merge_stack, bottom to top, followed by the    *)
(* pieces on split_stack, top to bottom, partition the sorted list in      *)
(* left-to-right order.  The range a piece covers is the range of the      *)
(* sorted list it was cut from or merged from: a piece on split_stack is   *)
(* that range itself, a piece on merge_stack holds vertices of it only.    *)

\* The vertices at the positions lo..hi of the sorted list.
InRange(r) == {SortedByX[i] : i \in r[1]..r[2]}

\* The ranges, from left to right, tile the positions 1..Len(pts).
Tiles(rs) ==
    /\ rs # <<>>
    /\ rs[1][1] = 1
    /\ Last(rs)[2] = Len(pts)
    /\ \A i \in 1..Len(rs) : rs[i][1] <= rs[i][2]
    /\ \A i \in 1..(Len(rs) - 1) : rs[i][2] + 1 = rs[i + 1][1]

StacksPartitionSortedList ==
    dpc \in {"split", "merge"} =>
        /\ Len(ranges.split) = Len(split_stack)
        /\ Len(ranges.merge) = Len(merge_stack)
        /\ Tiles(ranges.merge \o Reverse(ranges.split))
        /\ \A i \in 1..Len(split_stack) :
              split_stack[i] = SubSeq(SortedByX, ranges.split[i][1], ranges.split[i][2])
        /\ \A i \in 1..Len(merge_stack) :
              /\ merge_stack[i] # <<>>
              /\ Range(merge_stack[i]) \subseteq InRange(ranges.merge[i])
        /\ merge_call # <<>> =>
              /\ ranges.call[1][2] + 1 = ranges.call[2][1]
              /\ Range(merge_call[1]) \subseteq InRange(ranges.call[1])
              /\ Range(merge_call[2]) \subseteq InRange(ranges.call[2])
              /\ \A v \in Range(merge_call[1]) : \A w \in Range(merge_call[2]) :
                    IndexOf(SortedByX, v) < IndexOf(SortedByX, w)

\* merge has been called on two pieces of three or more vertices each while
\* a piece still waits on split_stack.
StacksPartitionSortedListWitness ==
    /\ dpc \in {"split", "merge"}
    /\ merge_call # <<>>
    /\ Len(merge_call[1]) >= 3
    /\ Len(merge_call[2]) >= 3
    /\ split_stack # <<>>

----------------------------------------------------------------------------
(* C19: for every simple polygon with n >= 4 vertices no assertion of      *)
(* DivideConquer fails: every popped piece has at least 2 vertices; merge  *)
(* is called only with sizes (>= 3, >= 3), (2, >= 3) or (2, 2), never with *)
(* a left piece of 3 or more and a right piece of 2; every merge returns a *)
(* piece of at least 3 ids, also when the vertices are collinear; and the  *)
(* loop ends with exactly one piece of at least 3 ids on merge_stack.      *)

NoAssertionFails ==
    (IsSimple(pts) /\ Len(pts) >= 4 /\ dpc # "idle") =>
        /\ dpc \notin {"panic", "diverges"}
        /\ \A i \in 1..Len(split_stack) : Len(split_stack[i]) >= 2
        /\ \A i \in 1..Len(merge_stack) : Len(merge_stack[i]) >= 2
        /\ merge_call # <<>> =>
              LET num_left == Len(merge_call[1])
                  num_right == Len(merge_call[2])
              IN  /\ \/ num_left >= 3 /\ num_right >= 3
                     \/ num_left = 2 /\ num_right >= 3
                     \/ num_left = 2 /\ num_right = 2
                  /\ \A i \in 1..Len(merge_stack) :
                        ranges.merge[i][2] - ranges.merge[i][1] >= 3
                            => Len(merge_stack[i]) >= 3
        /\ (dpc = "split" /\ split_stack = <<>>) =>
              /\ Len(merge_stack) = 1
              /\ Len(merge_stack[1]) >= 3
        /\ dpc = "returned" => out.val.kind = "hull"

----------------------------------------------------------------------------
(* C20: for every simple counter-clockwise input, non-convex ones          *)
(* included, every base piece of 3 vertices handed to merge is in          *)
(* counter-clockwise orientation after its re-sort by id: its three        *)
(* vertices, in the order of the piece, make a left turn or are collinear. *)

\* The piece is a base piece of three vertices: it covers a range of three
\* positions of the sorted list.
BasePieceOfThree(piece, r) == Len(piece) = 3 /\ r[2] - r[1] = 2

CounterClockwisePiece(piece) ==
    left_on(pts[piece[3]], <<pts[piece[1]], pts[piece[2]]>>)

BasePiecesAreCounterClockwise ==
    (IsSimple(pts) /\ IsCCW(pts) /\ merge_call # <<>>) =>
        \A k \in 1..2 :
            BasePieceOfThree(merge_call[k], ranges.call[k])
                => CounterClockwisePiece(merge_call[k])

----------------------------------------------------------------------------
(* C21: every vertex id that QuickHull inserts into hull_ids is an extreme *)
(* point of the input; when several vertices of a partition tie for the    *)
(* maximum distance from the base edge a-b, the one chosen as c does not   *)
(* lie strictly between two other tied vertices, so no vertex interior to  *)
(* a hull edge enters the hull.                                            *)

\* The position of a computer in the order the driver runs them.
ComputerIndex(name) == CHOOSE k \in 1..Len(Computers) : Computers[k] = name

QuickHullInsertsExtremePoints ==
    LET k == ComputerIndex("QuickHull")
    IN  (IsSimple(pts) /\ Len(hulls) >= k /\ hulls[k].kind = "hull") =>
            \A v \in hulls[k].ids :
                /\ v \in ExtremePoints
                /\ \A a, b \in (1..Len(pts)) \ {v} :
                      a # b => ~OnSegment(pts[v], pts[a], pts[b])

----------------------------------------------------------------------------
(* C22: during GrahamScan::convex_hull the stack holds at least 2 vertices *)
(* whenever its top two entries are read, so the assertion                 *)
(* stack.len() >= 2 never fails, for every simple polygon, also one with   *)
(* vertices collinear with the start vertex: the rightmost-lowest vertex   *)
(* and the first angle-sorted vertex are never popped.  Neither of the two *)
(* is in the list the for loop pushes from, so they are on the final stack *)
(* exactly when they were never popped.                                    *)

GrahamStackKeepsTwo ==
    LET k == ComputerIndex("GrahamScan")
    IN  (IsSimple(pts) /\ Len(hulls) >= k) =>
            /\ hulls[k].kind = "hull"
            /\ rightmost_lowest_vertex(vertex_ids) \in hulls[k].ids
            /\ min_angle_sorted_vertices[1] \in hulls[k].ids

\* GrahamScan has run on a polygon with two vertices on one ray from the
\* start vertex, and has popped a vertex on the way.
GrahamStackKeepsTwoWitness ==
    LET k == ComputerIndex("GrahamScan")
        v0 == rightmost_lowest_vertex(vertex_ids)
    IN  /\ Len(hulls) >= k
        /\ hulls[k].kind = "hull"
        /\ \E a, b \in (1..Len(pts)) \ {v0} :
              a # b /\ OnSegment(pts[a], pts[v0], pts[b])
        /\ Cardinality(hulls[k].ids) < Len(min_angle_sorted_vertices) + 1

----------------------------------------------------------------------------
(* C23: GiftWrapping::convex_hull terminates for every simple polygon.     *)
(* From the lowest-then-rightmost vertex each step selects the vertex of   *)
(* minimum counter-clockwise angle from the current hull edge, the         *)
(* farthest one among those of equal angle; so every selected vertex is an *)
(* extreme point, none is selected twice, and the walk is back at the      *)
(* start vertex after at most n steps.  The walk returns a hull only when  *)
(* it reaches the start vertex without selecting a vertex a second time,   *)
(* and it inserts one new id per step.                                     *)

GiftWrappingTerminates ==
    LET k == ComputerIndex("GiftWrapping")
    IN  (IsSimple(pts) /\ Len(hulls) >= k) =>
            /\ hulls[k].kind = "hull"
            /\ hulls[k].ids \subseteq ExtremePoints
            /\ rightmost_lowest_vertex(vertex_ids) \in hulls[k].ids
            /\ Cardinality(hulls[k].ids) <= Len(pts)

\* GiftWrapping has returned on a simple polygon with a vertex on a hull edge
\* between two selected vertices: a step had two vertices of equal angle.
GiftWrappingTerminatesWitness ==
    LET k == ComputerIndex("GiftWrapping")
    IN  /\ IsSimple(pts)
        /\ Len(hulls) >= k
        /\ hulls[k].kind = "hull"
        /\ \E v \in (1..Len(pts)) \ hulls[k].ids :
              \E a, b \in hulls[k].ids :
                  a # b /\ OnSegment(pts[v], pts[a], pts[b])

----------------------------------------------------------------------------
(* C24: which vertices InteriorPoints::interior_points marks.              *)

\* p is strictly inside the triangle abc, whose corners are not collinear.
InOpenTriangle(p, a, b, c) ==
    \/ Orient(a, b, p) > 0 /\ Orient(b, c, p) > 0 /\ Orient(c, a, p) > 0
    \/ Orient(a, b, p) < 0 /\ Orient(b, c, p) < 0 /\ Orient(c, a, p) < 0

\* The triples of distinct vertices other than v.
OtherTriples(v) ==
    LET others == (1..Len(pts)) \ {v}
    IN  {t \in others \X others \X others :
            t[1] # t[2] /\ t[1] # t[3] /\ t[2] # t[3]}

\* The hull of InteriorPoints is the set of the vertices never marked.
HullIsUnmarked ==
    LET k == ComputerIndex("InteriorPoints")
    IN  /\ hulls[k].kind = "hull"
        /\ hulls[k].ids = (1..Len(pts)) \ interior_points

(* C24, as stated: a vertex v is marked if and only if some three other    *)
(* vertices form a non-degenerate triangle with v strictly inside it; a    *)
(* collinear triple marks no vertex, and the hull is the set of the        *)
(* vertices never marked.                                                  *)
MarkedIffStrictlyInside ==
    Len(hulls) = ComputerIndex("InteriorPoints") =>
        /\ \A v \in 1..Len(pts) :
              v \in interior_points <=>
                  \E t \in OtherTriples(v) :
                      InOpenTriangle(pts[v], pts[t[1]], pts[t[2]], pts[t[3]])
        /\ HullIsUnmarked

(* C24, amended: a vertex v is marked if and only if some three other      *)
(* vertices form a non-degenerate triangle with v inside it or on its      *)
(* boundary; a vertex that only collinear triples surround is not marked,  *)
(* and the hull is the set of the vertices never marked.                   *)
MarkedIffInClosedTriangle ==
    Len(hulls) = ComputerIndex("InteriorPoints") =>
        /\ \A v \in 1..Len(pts) :
              v \in interior_points <=>
                  \E t \in OtherTriples(v) :
                      InClosedTriangle(pts[v], pts[t[1]], pts[t[2]], pts[t[3]])
        /\ \A v \in 1..Len(pts) :
              (\A t \in OtherTriples(v) :
                   Orient(pts[t[1]], pts[t[2]], pts[t[3]]) = 0)
                  => v \notin interior_points
        /\ HullIsUnmarked

\* InteriorPoints has run on a polygon where one marked vertex is strictly
\* inside a triangle and another is on the boundary of a triangle and
\* strictly inside none, while some collinear triple has a vertex between
\* its ends.
MarkedIffInClosedTriangleWitness ==
    /\ Len(hulls) = ComputerIndex("InteriorPoints")
    /\ \E v \in interior_points :
          \E t \in OtherTriples(v) :
              InOpenTriangle(pts[v], pts[t[1]], pts[t[2]], pts[t[3]])
    /\ \E v \in interior_points :
          \A t \in OtherTriples(v) :
              ~InOpenTriangle(pts[v], pts[t[1]], pts[t[2]], pts[t[3]])
    /\ \E a, b, c \in 1..Len(pts) :
          a # b /\ b # c /\ a # c /\ OnSegment(pts[b], pts[a], pts[c])

----------------------------------------------------------------------------
(* C25: the edges ExtremeEdges::extreme_edges keeps.                       *)

\* The ordered pairs (a, b) with every other vertex left of or on a->b.
LeftOnPairs ==
    {pr \in (1..Len(pts)) \X (1..Len(pts)) :
        /\ pr[1] # pr[2]
        /\ \A c \in (1..Len(pts)) \ {pr[1], pr[2]} :
              Orient(pts[pr[1]], pts[pr[2]], pts[c]) >= 0}

\* The pairs extreme_edges has pushed when it calls remove_collinear.
Candidates ==
    LET perms == Permutations2(vertex_ids)
    IN  Range(Filter(perms, {pr \in Range(perms) : is_extreme(pr)}))

EdgeLength(pr) == distance_squared(pts[pr[1]], pts[pr[2]])

(* C25: extreme_edges first keeps an ordered pair (a, b) iff every other   *)
(* vertex is left-on of a->b; remove_collinear then leaves, for each       *)
(* vertex, at most one edge starting at it and at most one edge ending at  *)
(* it, each the longest candidate; so of a chain of collinear              *)
(* hull-boundary vertices x, y, z only the edge (x, z) between the two     *)
(* farthest-apart vertices survives and y is not in the hull.              *)
ExtremeEdgesKeepsLongest ==
    LET k == ComputerIndex("ExtremeEdges")
        E == Range(extreme_edges)
        C == Candidates
        longest(c) == \A d \in C :
                          (d[1] = c[1] \/ d[2] = c[2]) => EdgeLength(d) <= EdgeLength(c)
    IN  (Len(hulls) = k /\ IsSimple(pts)) =>
            /\ C = LeftOnPairs
            /\ E \subseteq C
            /\ \A e, f \in E : (e[1] = f[1] \/ e[2] = f[2]) => e = f
            /\ \A c \in C : c \in E <=> longest(c)
            /\ hulls[k].kind = "hull"
            /\ hulls[k].ids = UNION {{e[1], e[2]} : e \in E}
            /\ \A xy, yz \in C :
                  (xy[2] = yz[1] /\ OnSegment(pts[xy[2]], pts[xy[1]], pts[yz[2]])) =>
                      /\ xy \notin E
                      /\ yz \notin E
                      /\ xy[2] \notin hulls[k].ids

\* ExtremeEdges has run on a simple polygon with a chain x, y, z of
\* collinear vertices on the hull boundary, and the edge (x, z) has survived.
ExtremeEdgesKeepsLongestWitness ==
    /\ Len(hulls) = ComputerIndex("ExtremeEdges")
    /\ IsSimple(pts)
    /\ \E x, y, z \in 1..Len(pts) :
          /\ <<x, y>> \in Candidates
          /\ <<y, z>> \in Candidates
          /\ OnSegment(pts[y], pts[x], pts[z])
          /\ <<x, z>> \in Range(extreme_edges)

====
